---- MODULE Spec2Model ----
(***************************************************************************)
(* Invoice reimbursement workflow: InvoiceProcessingWorkflow (the graph of *)
(* analysis, verification, wait-for-fixes, confirmation and notification   *)
(* nodes) driven by SimpleChatHandler.handle_invoice_workflow, which keeps *)
(* one workflow state per user in _workflow_states.                        *)
(*                                                                         *)
(* Python values are encoded as follows.  An Optional value is a sequence  *)
(* of length at most one: <<>> is None, <<x>> is the value x.  Text is a   *)
(* string, the empty string standing for an absent, null or empty field.   *)
(* A workflow state is a dict object: it lives in `heap` and is referred   *)
(* to by its index, so that two holders of the same dict see each other's  *)
(* in-place assignments.                                                   *)
(***************************************************************************)
EXTENDS Integers, Sequences, FiniteSets, TLC

VARIABLES
    heap,     \* the InvoiceWorkflowState dicts created so far, by object id
    store,    \* the sessions a handler keeps (SimpleChatHandler._workflow_states,
              \* InvoiceWorkflowHandler._user_workflows): user -> object id, 0 = no entry
    reqs,     \* the coroutines of the handler, one per request slot
    db,       \* the invoices written by db.add_invoice, in order
    agentCalls, \* number of self._agent.invoke calls issued so far
    budget    \* number of handler calls still to be received

vars == <<heap, store, reqs, db, agentCalls, budget>>

\* Bounds on the number of handler calls in one behaviour, when the calls
\* come one after the other and when two of them may overlap.
MaxCalls == 3
MaxConcurrentCalls == 2

(***************************************************************************)
(* Optional values                                                         *)
(***************************************************************************)
None == <<>>
Some(x) == <<x>>
IsNone(o) == Len(o) = 0
Val(o) == o[1]

(***************************************************************************)
(* Invoice records (the dicts of extracted_data)                           *)
(***************************************************************************)
\* datetime.now(), as a day number
Today == 100
\* invoice_date values that are not a day number: key absent / empty, and a
\* string that strptime("%Y-%m-%d") rejects
NoDate == 0
BadDate == -1
\* invoice_date given as JSON null: the key is there with the value None
NullDate == -2
\* total_amount given as JSON null: float(None) raises TypeError
NullAmount == -1

\* {"parsing_error": msg} as built by the analysis node on failure
ErrorRecord(msg) ==
    [parsing_error |-> Some(msg), tax_id |-> "", company_name |-> "",
     vendor_name |-> "", invoice_date |-> NoDate, total_amount |-> 0,
     items |-> "", user_id |-> ""]

Inv(tax, comp, vend, date, amt, its) ==
    [parsing_error |-> None, tax_id |-> tax, company_name |-> comp,
     vendor_name |-> vend, invoice_date |-> date, total_amount |-> amt,
     items |-> its, user_id |-> ""]

\* Sample records returned by the extraction agent
GoodInvoice == Inv("123456789", "Microsoft Corp", "KFC", Today - 4, 150, "meal")
ScenarioA   == Inv("", "", "KFC", Today - 675, 250, "meal")
NoDateInvoice == Inv("987", "Contoso", "Taxi Co", NoDate, 40, "taxi")
NullAmountInvoice == Inv("123", "abc", "KFC", Today - 1, NullAmount, "taxi")
NullDateInvoice == Inv("555", "Fabrikam", "Taxi Co", NullDate, 60, "taxi")

\* python truthiness of record.get("parsing_error")
HasParsingError(rec) ==
    /\ ~IsNone(rec.parsing_error)
    /\ Val(rec.parsing_error) # ""

\* "meal" in str(items).lower()  /  "restaurant" in str(vendor_name).lower()
MealTexts == {"meal", "Team MEAL", "business meal", "Meal Express"}
RestaurantTexts == {"Restaurant Roma", "RESTAURANT 8", "restaurant dinner"}
ContainsMeal(s) == s \in MealTexts
ContainsRestaurant(s) == s \in RestaurantTexts

\* float(record.get("total_amount", 0)) raises for null
FloatRaises(rec) == rec.total_amount = NullAmount

Violation(idx, rule, arg) == [inv |-> idx, rule |-> rule, arg |-> arg]

\* the limit compared with >= instead of >
MealViolations_AtLeast(idx, rec) ==
    IF (ContainsMeal(rec.items) \/ ContainsRestaurant(rec.vendor_name))
       /\ rec.total_amount >= 200
    THEN <<Violation(idx, "meal_limit", "")>>
    ELSE <<>>

MealViolations(idx, rec) ==
    IF (ContainsMeal(rec.items) \/ ContainsRestaurant(rec.vendor_name))
       /\ rec.total_amount > 200
    THEN <<Violation(idx, "meal_limit", "")>>
    ELSE <<>>

DateViolations(idx, rec) ==
    IF rec.invoice_date \in {NoDate, NullDate} THEN <<>>
    ELSE IF rec.invoice_date = BadDate
         THEN <<Violation(idx, "invalid_date", "")>>
         ELSE IF Today - rec.invoice_date > 30
              THEN <<Violation(idx, "stale", "")>>
              ELSE <<>>

FieldViolation(idx, present, field) ==
    IF present THEN <<>> ELSE <<Violation(idx, "missing", field)>>

RequiredFieldViolations(idx, rec) ==
    FieldViolation(idx, rec.tax_id # "", "tax_id")
    \o FieldViolation(idx, rec.company_name # "", "company_name")
    \o FieldViolation(idx, rec.vendor_name # "", "vendor_name")
    \o FieldViolation(idx, rec.total_amount \notin {0, NullAmount}, "total_amount")

\* the body of the for loop of _policy_verification_node for one invoice
InvoiceViolations(idx, rec) ==
    IF HasParsingError(rec)
    THEN <<Violation(idx, "parse_failed", "")>>
    ELSE MealViolations(idx, rec) \o DateViolations(idx, rec)
         \o RequiredFieldViolations(idx, rec)

RECURSIVE AllViolations(_, _)
AllViolations(list, idx) ==
    IF idx > Len(list) THEN <<>>
    ELSE InvoiceViolations(idx, list[idx]) \o AllViolations(list, idx + 1)

\* the loop raises when float() is reached on a null amount
VerificationRaises(list) ==
    \E i \in 1..Len(list) : ~HasParsingError(list[i]) /\ FloatRaises(list[i])


(***************************************************************************)
(* InvoiceWorkflowState and the graph nodes                                *)
(***************************************************************************)
Msg(role, content) == [role |-> role, content |-> content]

\* the initial_state built by process_invoice_workflow
InitialState(user, text, files) ==
    [messages |-> <<Msg("user", text)>>,
     user_id |-> user,
     images |-> files,
     extracted_data |-> None,
     policy_violations |-> None,
     user_confirmation |-> None,
     workflow_stage |-> "starting",
     reimbursement_form |-> None,
     manager_notification_sent |-> None]

Say(st, content) == Append(st.messages, Msg("assistant", content))

(***************************************************************************)
(* What self._agent.invoke can do: raise (error is str(e)), answer text    *)
(* that is not JSON, or answer a JSON object.  For a JSON object, success  *)
(* is its "success" value, error its "error" value (None: key absent) and  *)
(* shape/data its "extracted_data" value: a list, a single object (data    *)
(* holds it alone) or null/absent.                                         *)
(***************************************************************************)
Outcome(kind, success, error, shape, data) ==
    [kind |-> kind, success |-> success, error |-> error,
     shape |-> shape, data |-> data]

ExtractionLists ==
    { <<>>, <<ScenarioA>>, <<NullAmountInvoice>>,
      <<GoodInvoice, NoDateInvoice>>, <<ScenarioA, GoodInvoice>>,
      <<NullDateInvoice>> }

ExtractionOutcomes ==
    { Outcome("raise", FALSE, Some(m), "null", <<>>) : m \in {"connection reset", ""} }
    \cup { Outcome("bad_json", FALSE, None, "null", <<>>) }
    \cup { Outcome("json", FALSE, e, "null", <<>>) : e \in {None, Some("")} }
    \cup { Outcome("json", TRUE, None, "list", d) : d \in ExtractionLists }
    \cup { Outcome("json", TRUE, None, "object", <<GoodInvoice>>),
           Outcome("json", TRUE, None, "null", <<>>) }

\* lines 329-337: the extracted_data taken from a parsed JSON answer
ParsedData(o) ==
    IF o.success
    THEN IF o.shape = "list" THEN o.data
         ELSE IF o.shape = "object" THEN <<o.data[1]>> ELSE <<>>
    ELSE <<ErrorRecord(IF IsNone(o.error) THEN "Unknown error" ELSE Val(o.error))>>

\* _invoice_analysis_node, from the answer of the agent on
_invoice_analysis_node(st, o) ==
    IF o.kind = "raise"
    THEN [st EXCEPT !.extracted_data = Some(<<ErrorRecord(Val(o.error))>>),
                    !.workflow_stage = "analysis_failed",
                    !.messages = Say(st, "Failed to analyze invoice")]
    ELSE [st EXCEPT !.extracted_data =
                        Some(IF o.kind = "bad_json"
                             THEN <<ErrorRecord("Invalid JSON response")>>
                             ELSE ParsedData(o)),
                    !.workflow_stage = "analysis_completed",
                    !.messages = Say(st, "analysis status"),
                    !.images = 0]

_policy_verification_node(st) ==
    LET list == Val(st.extracted_data) IN
    IF VerificationRaises(list)
    THEN [st EXCEPT !.policy_violations = Some(<<Violation(0, "system_error", "")>>),
                    !.workflow_stage = "verification_failed",
                    !.messages = Say(st, "Failed to verify policies")]
    ELSE LET all_violations == AllViolations(list, 1) IN
         [st EXCEPT !.policy_violations = Some(all_violations),
                    !.workflow_stage = "verification_completed",
                    !.messages = Say(st, IF Len(all_violations) > 0
                                         THEN "Policy violations found"
                                         ELSE "Policy verification passed")]

\* truthiness of state.get("policy_violations")
HasViolations(st) ==
    ~IsNone(st.policy_violations) /\ Len(Val(st.policy_violations)) > 0

\* the branch that never asks for fixes
_should_ask_for_fixes_Never(st) == "proceed_to_confirmation"

_should_ask_for_fixes(st) ==
    IF HasViolations(st) THEN "ask_for_fixes" ELSE "proceed_to_confirmation"

\* the node announcing the confirmation stage
_wait_for_fixes_node_AsConfirmation(st) ==
    [st EXCEPT !.workflow_stage = "awaiting_confirmation",
               !.messages = Say(st, "Policy violations details")]

_wait_for_fixes_node(st) ==
    [st EXCEPT !.workflow_stage = "awaiting_fixes",
               !.messages = Say(st, "Policy violations details")]

\* the sum over float(total_amount) of the non-error invoices raises
TotalRaises(st) ==
    \E i \in 1..Len(Val(st.extracted_data)) :
        /\ ~HasParsingError(Val(st.extracted_data)[i])
        /\ FloatRaises(Val(st.extracted_data)[i])

_user_confirmation_node(st) ==
    IF st.user_confirmation = Some(TRUE) THEN st
    ELSE IF TotalRaises(st)
         THEN [st EXCEPT !.workflow_stage = "confirmation_failed",
                         !.messages = Say(st, "Failed to generate reimbursement form")]
         ELSE [st EXCEPT !.workflow_stage = "awaiting_confirmation",
                         !.messages = Say(st, "Reimbursement request prepared")]

\* one run of the compiled graph from its entry point up to the interrupt
\* after wait_for_fixes or user_confirmation
RunGraph(st, o) ==
    LET verified == _policy_verification_node(_invoice_analysis_node(st, o)) IN
    IF _should_ask_for_fixes(verified) = "ask_for_fixes"
    THEN _wait_for_fixes_node(verified)
    ELSE _user_confirmation_node(verified)


(***************************************************************************)
(* _manager_notification_node, split at the awaits of its save loop        *)
(***************************************************************************)
\* position of the next record the loop saves, from position k on
\* (records with a parsing error are skipped); Len + 1 when there is none
RECURSIVE NextToSave(_, _)
NextToSave(list, k) ==
    IF k > Len(list) THEN k
    ELSE IF ~HasParsingError(list[k]) THEN k
         ELSE NextToSave(list, k + 1)

\* lines 527-529: the metadata written into the invoice dict before its save
\* lines 598-616: Invoice(...) rejects invoice_date = None, the field is a
\* str (data_models.py line 43); an absent key is replaced by ""
InvoiceRaises(rec) == rec.invoice_date = NullDate

Stamp(st, k) ==
    [st EXCEPT !.extracted_data =
        Some([Val(st.extracted_data) EXCEPT ![k].user_id = st.user_id])]

\* the same with the flag left unset
NotificationSent_FlagUnset(st) ==
    [st EXCEPT !.workflow_stage = "completed",
               !.messages = Say(st, "Reimbursement request submitted")]

\* lines 532-541: every save returned
NotificationSent(st) ==
    [st EXCEPT !.manager_notification_sent = Some(TRUE),
               !.workflow_stage = "completed",
               !.messages = Say(st, "Reimbursement request submitted")]

\* lines 543-549: the except branch
NotificationFailed(st) ==
    [st EXCEPT !.workflow_stage = "notification_failed",
               !.messages = Say(st, "Failed to send manager notification")]

(***************************************************************************)
(* handle_user_response, the branches that do not await                    *)
(***************************************************************************)
\* user_response.strip().upper() on the replies of the model
StripUpper(text) ==
    CASE text = " yes "   -> "YES"
      [] text = "Approve" -> "APPROVE"
      [] text = "ok"      -> "OK"
      [] text = "no"      -> "NO"
      [] text = " Reject" -> "REJECT"
      [] text = "confirm the second one" -> "CONFIRM THE SECOND ONE"
      [] text = "tax id 123456789" -> "TAX ID 123456789"
      [] OTHER -> text

Affirmative == {"CONFIRM", "YES", "APPROVE", "OK"}
Negative == {"CANCEL", "NO", "REJECT"}

\* what a user may send: as a reply to the confirmation prompt, as a
\* correction while fixes are awaited, and as a first submission
Replies ==
    {"CONFIRM", " yes ", "Approve", "ok", "CANCEL", "no", " Reject",
     "confirm the second one", "tax id 123456789"}
Corrections == {"tax id 123456789", "CANCEL", "CONFIRM"}
Submissions == {"invoice KFC 250 meal", "CONFIRM"}

\* the flag set with the confirmation, before the saves
Confirmed_FlagEarly(st) ==
    [st EXCEPT !.user_confirmation = Some(TRUE), !.workflow_stage = "confirmed",
               !.manager_notification_sent = Some(TRUE)]

\* lines 671-672
Confirmed(st) ==
    [st EXCEPT !.user_confirmation = Some(TRUE), !.workflow_stage = "confirmed"]

\* the message log cleared with the rest of the state
Cancelled_LogCleared(st) ==
    [st EXCEPT !.user_confirmation = Some(FALSE),
               !.workflow_stage = "cancelled",
               !.reimbursement_form = None,
               !.extracted_data = None,
               !.policy_violations = None,
               !.messages = <<Msg("assistant", "Reimbursement request cancelled")>>]

\* lines 678-687
Cancelled(st) ==
    [st EXCEPT !.user_confirmation = Some(FALSE),
               !.workflow_stage = "cancelled",
               !.reimbursement_form = None,
               !.extracted_data = None,
               !.policy_violations = None,
               !.messages = Say(st, "Reimbursement request cancelled")]

\* the reply taken as a correction instead
Reprompted_AsCorrection(st) ==
    [st EXCEPT !.workflow_stage = "awaiting_fixes",
               !.messages = Say(st, "Please reply CONFIRM or CANCEL")]

\* lines 689-693
Reprompted(st) ==
    [st EXCEPT !.messages = Say(st, "Please reply CONFIRM or CANCEL")]

\* the correction logged as an assistant entry
FixesAppended_AsAssistant(st, text) ==
    [st EXCEPT !.messages = Append(st.messages, Msg("assistant", text))]

\* lines 698-700
FixesAppended(st, text) ==
    [st EXCEPT !.messages = Append(st.messages, Msg("user", text))]

(***************************************************************************)
(* SimpleChatHandler._create_json_response                                 *)
(***************************************************************************)
\* the map without its entry for completed
stage_to_state_NoCompleted(stage) ==
    CASE stage \in {"starting", "analysis_completed", "fixes_provided"} -> "EXTRACT"
      [] stage \in {"verification_completed", "awaiting_fixes"} -> "VALIDATE"
      [] stage \in {"awaiting_confirmation", "confirmed"} -> "CONFIRM"
      [] stage = "cancelled" -> "CANCELLED"
      [] OTHER -> "UNKNOWN"

stage_to_state(stage) ==
    CASE stage \in {"starting", "analysis_completed", "fixes_provided"} -> "EXTRACT"
      [] stage \in {"verification_completed", "awaiting_fixes"} -> "VALIDATE"
      [] stage \in {"awaiting_confirmation", "confirmed"} -> "CONFIRM"
      [] stage = "completed" -> "NOTIFY"
      [] stage = "cancelled" -> "CANCELLED"
      [] OTHER -> "UNKNOWN"

RECURSIVE ResponseInvoices(_)
ResponseInvoices(list) ==
    IF list = <<>> THEN <<>>
    ELSE LET rec == Head(list) IN
         (IF HasParsingError(rec) THEN <<>>
          ELSE <<[tax_id |-> rec.tax_id, company_name |-> rec.company_name,
                  vendor_name |-> rec.vendor_name, amount |-> rec.total_amount,
                  date |-> rec.invoice_date, items |-> rec.items]>>)
         \o ResponseInvoices(Tail(list))

\* iterating extracted_data raises TypeError when it is None
JsonResponseRaises(st) == IsNone(st.extracted_data)

_create_json_response(st) ==
    [state |-> stage_to_state(st.workflow_stage),
     message |-> st.messages[Len(st.messages)].content,
     invoices |-> ResponseInvoices(Val(st.extracted_data))]

\* lines 171-180
error_response ==
    [state |-> "ERROR", message |-> "Workflow error", invoices |-> <<>>]

\* the same with one key for every user
StoreAfter_OneKey(branch, u, o, st) ==
    IF JsonResponseRaises(st) THEN [store EXCEPT !["u1"] = o]
    ELSE IF branch # "fixes" /\ st.workflow_stage \in {"completed", "cancelled"}
         THEN [store EXCEPT !["u1"] = 0]
         ELSE [store EXCEPT !["u1"] = o]

\* The tail of a branch of handle_invoice_workflow once the workflow has
\* returned the dict `o` (content `st`): store it, build the response,
\* pop the entry when the branch does so and the stage is terminal.  An
\* exception of _create_json_response skips the pop.
StoreAfter(branch, u, o, st) ==
    IF JsonResponseRaises(st) THEN [store EXCEPT ![u] = o]
    ELSE IF branch # "fixes" /\ st.workflow_stage \in {"completed", "cancelled"}
         THEN [store EXCEPT ![u] = 0]
         ELSE [store EXCEPT ![u] = o]

ResponseAfter(st) ==
    IF JsonResponseRaises(st) THEN error_response ELSE _create_json_response(st)


(***************************************************************************)
(* SimpleChatHandler.handle_invoice_workflow as a coroutine.  It gives up  *)
(* control only at the await of the agent (inside the analysis node) and   *)
(* at the await of each save (inside the notification node); the code      *)
(* between two awaits runs as one step.                                    *)
(***************************************************************************)
\* seq numbers the call, existing_state is the object id read at line 110,
\* obj the dict the workflow works on, gst the state held by the running
\* graph, idx the position of the save loop
IdleReq ==
    [pc |-> "idle", seq |-> 0, user |-> "", text |-> "", branch |-> "",
     existing_state |-> 0, obj |-> 0, idx |-> 0, gst |-> None,
     response |-> None, sent |-> <<>>, raised |-> FALSE, images |-> 0]

\* the call returned `resp`; `o` is the dict the workflow returned
Done(r, o, resp) ==
    [r EXCEPT !.pc = "done", !.obj = o, !.idx = 0, !.gst = None, !.images = 0,
              !.response = Some(resp)]

Users == DOMAIN store
Slots == DOMAIN reqs

CanReceive(s) == reqs[s].pc \in {"idle", "done"} /\ budget > 0

StoredStage(u) ==
    IF store[u] = 0 THEN "" ELSE heap[store[u]].workflow_stage

Call(u, text, branch) ==
    [IdleReq EXCEPT !.seq = budget, !.user = u, !.text = text,
                    !.branch = branch, !.existing_state = store[u]]

\* lines 149-157: no stored state, or one in a stage that is neither
\* awaiting_confirmation nor awaiting_fixes
ReceiveNew(s, u, text, files) ==
    /\ CanReceive(s)
    /\ StoredStage(u) \notin {"awaiting_confirmation", "awaiting_fixes"}
    /\ reqs' = [reqs EXCEPT ![s] =
                  [Call(u, text, "new") EXCEPT
                      !.pc = "extracting", !.images = files,
                      !.gst = Some(InitialState(u, text, files))]]
    /\ agentCalls' = agentCalls + 1
    /\ budget' = budget - 1
    /\ UNCHANGED <<heap, store, db>>

\* lines 132-139 with 696-702: the stored state is awaiting fixes; the
\* images of the request are not passed on
ReceiveFixes(s, u, text, files) ==
    /\ CanReceive(s)
    /\ StoredStage(u) = "awaiting_fixes"
    /\ LET o == store[u]
           st == FixesAppended(heap[o], text) IN
       /\ heap' = [heap EXCEPT ![o] = st]
       /\ reqs' = [reqs EXCEPT ![s] =
                     [Call(u, text, "fixes") EXCEPT
                         !.pc = "extracting", !.images = files,
                         !.obj = o, !.gst = Some(st)]]
    /\ agentCalls' = agentCalls + 1
    /\ budget' = budget - 1
    /\ UNCHANGED <<store, db>>

\* the agent answers: the rest of the graph run, then lines 141-147 or
\* 159-169 of the handler
AgentReturns(s, outcome) ==
    /\ reqs[s].pc = "extracting"
    /\ LET r == reqs[s]
           result == RunGraph(Val(r.gst), outcome)
           o == Len(heap) + 1 IN
       /\ heap' = Append(heap, result)
       /\ store' = StoreAfter(r.branch, r.user, o, result)
       /\ reqs' = [reqs EXCEPT ![s] = Done(r, o, ResponseAfter(result))]
    /\ UNCHANGED <<db, agentCalls, budget>>

\* lines 111-130 with 666-693: the stored state is awaiting confirmation
\* and the reply is a cancellation
ReceiveCancel(s, u, text) ==
    /\ CanReceive(s)
    /\ StoredStage(u) = "awaiting_confirmation"
    /\ StripUpper(text) \in Negative
    /\ LET o == store[u]
           st == Cancelled(heap[o]) IN
       /\ heap' = [heap EXCEPT ![o] = st]
       /\ store' = StoreAfter("confirm", u, o, st)
       /\ reqs' = [reqs EXCEPT ![s] =
                     Done(Call(u, text, "confirm"), o, ResponseAfter(st))]
    /\ budget' = budget - 1
    /\ UNCHANGED <<db, agentCalls>>

\* ... and the reply is neither a confirmation nor a cancellation
ReceiveOther(s, u, text) ==
    /\ CanReceive(s)
    /\ StoredStage(u) = "awaiting_confirmation"
    /\ StripUpper(text) \notin Affirmative \cup Negative
    /\ LET o == store[u]
           st == Reprompted(heap[o]) IN
       /\ heap' = [heap EXCEPT ![o] = st]
       /\ store' = StoreAfter("confirm", u, o, st)
       /\ reqs' = [reqs EXCEPT ![s] =
                     Done(Call(u, text, "confirm"), o, ResponseAfter(st))]
    /\ budget' = budget - 1
    /\ UNCHANGED <<db, agentCalls>>

\* ... and the reply is a confirmation: the notification node runs up to
\* its first save, or to its end when there is nothing to save
ReceiveConfirm(s, u, text) ==
    /\ CanReceive(s)
    /\ StoredStage(u) = "awaiting_confirmation"
    /\ StripUpper(text) \in Affirmative
    /\ LET o == store[u]
           st == Confirmed(heap[o])
           first == NextToSave(Val(st.extracted_data), 1)
           r == Call(u, text, "confirm") IN
       IF TotalRaises(st)
       THEN /\ heap' = [heap EXCEPT ![o] = NotificationFailed(st)]
            /\ store' = StoreAfter("confirm", u, o, NotificationFailed(st))
            /\ reqs' = [reqs EXCEPT ![s] =
                          Done(r, o, ResponseAfter(NotificationFailed(st)))]
       ELSE IF first > Len(Val(st.extracted_data))
       THEN /\ heap' = [heap EXCEPT ![o] = NotificationSent(st)]
            /\ store' = StoreAfter("confirm", u, o, NotificationSent(st))
            /\ reqs' = [reqs EXCEPT ![s] =
                          Done(r, o, ResponseAfter(NotificationSent(st)))]
       ELSE /\ heap' = [heap EXCEPT ![o] = st]
            /\ reqs' = [reqs EXCEPT ![s] =
                          [r EXCEPT !.pc = "saving", !.obj = o, !.idx = first]]
            /\ UNCHANGED store
    /\ budget' = budget - 1
    /\ UNCHANGED <<db, agentCalls>>

\* _save_reimbursement_form for the invoice at position idx returns
SaveSucceeds(s) ==
    /\ reqs[s].pc = "saving"
    /\ ~InvoiceRaises(Val(heap[reqs[s].obj].extracted_data)[reqs[s].idx])
    /\ LET r == reqs[s]
           o == r.obj
           st == Stamp(heap[o], r.idx)
           list == Val(st.extracted_data)
           next == NextToSave(list, r.idx + 1) IN
       /\ db' = Append(db, [session |-> o, position |-> r.idx,
                            invoice |-> list[r.idx]])
       /\ IF next > Len(list)
          THEN /\ heap' = [heap EXCEPT ![o] = NotificationSent(st)]
               /\ store' = StoreAfter(r.branch, r.user, o, NotificationSent(st))
               /\ reqs' = [reqs EXCEPT ![s] =
                             Done(r, o, ResponseAfter(NotificationSent(st)))]
          ELSE /\ heap' = [heap EXCEPT ![o] = st]
               /\ reqs' = [reqs EXCEPT ![s].idx = next]
               /\ UNCHANGED store
    /\ UNCHANGED <<agentCalls, budget>>

\* _save_reimbursement_form for the invoice at position idx raises
SaveFails(s) ==
    /\ reqs[s].pc = "saving"
    /\ LET r == reqs[s]
           o == r.obj
           st == NotificationFailed(Stamp(heap[o], r.idx)) IN
       /\ heap' = [heap EXCEPT ![o] = st]
       /\ store' = StoreAfter(r.branch, r.user, o, st)
       /\ reqs' = [reqs EXCEPT ![s] = Done(r, o, ResponseAfter(st))]
    /\ UNCHANGED <<db, agentCalls, budget>>

\* number of attachments a request may carry
Attachments == {0, 1}

Init ==
    /\ heap = <<>>
    /\ store = [u \in {"u1"} |-> 0]
    /\ reqs = [s \in {1} |-> IdleReq]
    /\ db = <<>>
    /\ agentCalls = 0
    /\ budget = MaxCalls

\* two requests may be in flight at the same time
InitConcurrent ==
    /\ heap = <<>>
    /\ store = [u \in {"u1"} |-> 0]
    /\ reqs = [s \in {1, 2} |-> IdleReq]
    /\ db = <<>>
    /\ agentCalls = 0
    /\ budget = MaxConcurrentCalls

Next ==
    \/ \E s \in Slots, u \in Users, text \in Submissions, files \in Attachments :
          ReceiveNew(s, u, text, files)
    \/ \E s \in Slots, u \in Users, text \in Corrections, files \in Attachments :
          ReceiveFixes(s, u, text, files)
    \/ \E s \in Slots, u \in Users, text \in Replies : ReceiveCancel(s, u, text)
    \/ \E s \in Slots, u \in Users, text \in Replies : ReceiveOther(s, u, text)
    \/ \E s \in Slots, u \in Users, text \in Replies : ReceiveConfirm(s, u, text)
    \/ \E s \in Slots, outcome \in ExtractionOutcomes : AgentReturns(s, outcome)
    \/ \E s \in Slots : SaveSucceeds(s)
    \/ \E s \in Slots : SaveFails(s)

Spec == Init /\ [][Next]_vars
SpecConcurrent == InitConcurrent /\ [][Next]_vars

(***************************************************************************)
(* Two users.  clear_user_state is a plain method: it runs to its end      *)
(* whenever it is called, also while a coroutine of that user or of        *)
(* another one is suspended.                                               *)
(***************************************************************************)
MaxUserCalls == 2

\* lines 192-199: del self._workflow_states[user_key] when the key is there
ClearUserState(u) ==
    /\ budget > 0
    /\ store' = [store EXCEPT ![u] = 0]
    /\ budget' = budget - 1
    /\ UNCHANGED <<heap, reqs, db, agentCalls>>

\* the session a first submission of user u left suspended, for an answer
\* of the agent with and without violations
SuspendedSessions(u) ==
    { RunGraph(InitialState(u, "invoice KFC 250 meal", 0),
               Outcome("json", TRUE, None, "list", d)) :
        d \in {<<ScenarioA>>, <<GoodInvoice, NoDateInvoice>>} }

\* both users have a suspended session from earlier calls
InitUsers ==
    /\ \E st1 \in SuspendedSessions("u1"), st2 \in SuspendedSessions("u2") :
          heap = <<st1, st2>>
    /\ store = [u \in {"u1", "u2"} |-> IF u = "u1" THEN 1 ELSE 2]
    /\ reqs = [s \in {1, 2} |-> IdleReq]
    /\ db = <<>>
    /\ agentCalls = 0
    /\ budget = MaxUserCalls

\* each user sends one call at a time, through a coroutine of its own; the
\* calls of the two users overlap in every possible way
Owner(s) == IF s = 1 THEN "u1" ELSE "u2"

NextUsers ==
    \/ \E s \in Slots, text \in Submissions, files \in Attachments :
          ReceiveNew(s, Owner(s), text, files)
    \/ \E s \in Slots, text \in Corrections, files \in Attachments :
          ReceiveFixes(s, Owner(s), text, files)
    \/ \E s \in Slots, text \in Replies : ReceiveCancel(s, Owner(s), text)
    \/ \E s \in Slots, text \in Replies : ReceiveOther(s, Owner(s), text)
    \/ \E s \in Slots, text \in Replies : ReceiveConfirm(s, Owner(s), text)
    \/ \E s \in Slots, outcome \in ExtractionOutcomes : AgentReturns(s, outcome)
    \/ \E s \in Slots : SaveSucceeds(s)
    \/ \E s \in Slots : SaveFails(s)
    \/ \E u \in Users : ClearUserState(u)

SpecUsers == InitUsers /\ [][NextUsers]_vars


(***************************************************************************)
(* _policy_verification_node on its own: the invoice list is any list the  *)
(* analysis node can leave in extracted_data, and the node is applied to   *)
(* it, once or several times in a row.                                     *)
(***************************************************************************)
MaxInvoices == 2
MaxPasses == 2

\* every combination of the field values the rules tell apart
RuleRecords ==
    { Inv(tax, comp, vi[1], date, amt, vi[2]) :
        tax \in {"", "123"}, comp \in {"", "abc"},
        vi \in { <<"KFC", "taxi">>, <<"KFC", "Team MEAL">>,
                 <<"Restaurant Roma", "taxi">>, <<"Meal Express", "taxi">>,
                 <<"KFC", "restaurant dinner">>, <<"", "taxi">> },
        date \in {NoDate, BadDate, Today - 30, Today - 31},
        amt \in {NullAmount, 0, 200, 201} }

\* the records lists of several invoices are made of
ListRecords ==
    { GoodInvoice, ScenarioA, NoDateInvoice, NullAmountInvoice,
      Inv("123", "abc", "Restaurant Roma", BadDate, 201, "taxi"),
      Inv("123", "", "KFC", Today - 31, 0, "Team MEAL"),
      ErrorRecord("Invalid JSON response"), ErrorRecord("") }

RECURSIVE ListsUpTo(_, _)
ListsUpTo(S, n) ==
    IF n = 0 THEN {<<>>}
    ELSE LET shorter == ListsUpTo(S, n - 1) IN
         shorter \cup { Append(l, r) : l \in {x \in shorter : Len(x) = n - 1}, r \in S }

ValidatorLists ==
    { <<r>> : r \in RuleRecords } \cup ListsUpTo(ListRecords, MaxInvoices)

\* the state the analysis node hands to the verification node
Analysed(list) ==
    _invoice_analysis_node(InitialState("u1", "invoice KFC 250 meal", 0),
                           Outcome("json", TRUE, None, "list", list))

InitValidator ==
    /\ \E list \in ValidatorLists : heap = <<Analysed(list)>>
    /\ store = [u \in {"u1"} |-> 0]
    /\ reqs = [s \in {1} |-> IdleReq]
    /\ db = <<>>
    /\ agentCalls = 0
    /\ budget = MaxPasses

\* one verification pass over the state
Verify ==
    /\ budget > 0
    /\ heap' = [heap EXCEPT ![1] = _policy_verification_node(heap[1])]
    /\ budget' = budget - 1
    /\ UNCHANGED <<store, reqs, db, agentCalls>>

NextValidator == Verify

SpecValidator == InitValidator /\ [][NextValidator]_vars


(***************************************************************************)
(* Properties                                                              *)
(***************************************************************************)
Objects == 1..Len(heap)
Invoices(st) == IF IsNone(st.extracted_data) THEN <<>> ELSE Val(st.extracted_data)

\* number of writes to the store of the invoice at position k of dict o
SaveCount(o, k) ==
    Cardinality({i \in 1..Len(db) : db[i].session = o /\ db[i].position = k})

\* every invoice of `list` without parsing error written once for dict o,
\* the others never
SavedExactlyOnce(o, list) ==
    \A k \in 1..Len(list) :
        SaveCount(o, k) = IF HasParsingError(list[k]) THEN 0 ELSE 1

\* slot s has returned from a call that found the session awaiting
\* confirmation
AnsweredConfirmation(s) ==
    /\ reqs[s].pc = "done"
    /\ reqs[s].existing_state # 0
    /\ reqs[s].branch = "confirm"

\* in this step slot s receives a call for a session in stage `stage`
Receives(s, stage) ==
    /\ reqs[s].pc \in {"idle", "done"}
    /\ reqs'[s].seq = budget
    /\ budget' = budget - 1
    /\ StoredStage(reqs'[s].user) = stage

C2_CancelClearsAndEvicts ==
    \A s \in Slots :
        (AnsweredConfirmation(s) /\ StripUpper(reqs[s].text) \in Negative)
        => LET st == heap[reqs[s].obj] IN
           /\ st.workflow_stage = "cancelled"
           /\ st.user_confirmation = Some(FALSE)
           /\ st.extracted_data = None
           /\ st.policy_violations = None
           /\ st.reimbursement_form = None
           /\ \A i \in 1..Len(db) : db[i].session # reqs[s].obj
           /\ store[reqs[s].user] # reqs[s].obj

\* C3: a reply to the confirmation prompt that is neither affirmative nor
\* negative leaves stage, invoices, violations and user_confirmation as
\* they were, calls neither the agent nor the store, keeps the session
\* stored and only appends the re-prompt.
C3_OtherReplyStep ==
    \A s \in Slots :
        (/\ Receives(s, "awaiting_confirmation")
         /\ StripUpper(reqs'[s].text) \notin Affirmative \cup Negative)
        => LET u == reqs'[s].user
               o == store[u] IN
           /\ reqs'[s].pc = "done"
           /\ store' = store
           /\ Len(heap') = Len(heap)
           /\ \A p \in Objects : p # o => heap'[p] = heap[p]
           /\ heap'[o] = [heap[o] EXCEPT !.messages =
                  Append(heap[o].messages,
                         Msg("assistant", "Please reply CONFIRM or CANCEL"))]
           /\ db' = db
           /\ agentCalls' = agentCalls
           /\ Val(reqs'[s].response).state = "CONFIRM"

\* C3: every step of a behaviour satisfies the re-prompt frame condition above.
C3_OtherReplyOnlyReprompts == [][C3_OtherReplyStep]_vars

\* the reply "tax id 123456789" to the confirmation prompt was answered
\* with the re-prompt
C3_Witness ==
    \E s \in Slots :
        /\ AnsweredConfirmation(s)
        /\ reqs[s].text = "tax id 123456789"
        /\ Val(reqs[s].response).message = "Please reply CONFIRM or CANCEL"
        /\ Len(Invoices(heap[reqs[s].obj])) = 2

\* C4: a graph run ends in awaiting_fixes exactly when policy_violations
\* is non-empty and in awaiting_confirmation exactly when it is empty; a
\* dict in stage awaiting_confirmation has no violation and no invoice
\* with a parsing error, a dict in stage awaiting_fixes has a violation.
C4_SuspendStageMatchesViolations ==
    /\ \A s \in Slots :
          (reqs[s].pc = "done" /\ reqs[s].branch \in {"new", "fixes"})
          => LET st == heap[reqs[s].obj] IN
             /\ st.workflow_stage \in {"awaiting_fixes", "awaiting_confirmation"}
             /\ st.workflow_stage = "awaiting_fixes" <=> HasViolations(st)
    /\ \A o \in Objects :
          /\ heap[o].workflow_stage = "awaiting_confirmation"
             => /\ heap[o].policy_violations = Some(<<>>)
                /\ \A k \in 1..Len(Invoices(heap[o])) :
                      ~HasParsingError(Invoices(heap[o])[k])
          /\ heap[o].workflow_stage = "awaiting_fixes" => HasViolations(heap[o])

\* a session went from awaiting_fixes to awaiting_confirmation
C4_Witness ==
    \E s \in Slots :
        /\ reqs[s].pc = "done"
        /\ reqs[s].branch = "fixes"
        /\ heap[reqs[s].existing_state].workflow_stage = "awaiting_fixes"
        /\ Len(Val(heap[reqs[s].existing_state].policy_violations)) = 4
        /\ heap[reqs[s].obj].workflow_stage = "awaiting_confirmation"

\* C5: a message received while the session awaits fixes, whatever its
\* text, is appended to the log as a user entry and the agent is called;
\* the graph run that follows appends the analysis and the verification
\* message after it and ends in awaiting_fixes or awaiting_confirmation,
\* with nothing saved.
C5_FixesStep ==
    \A s \in Slots :
        /\ Receives(s, "awaiting_fixes")
           => LET o == store[reqs'[s].user] IN
              /\ reqs'[s].pc = "extracting"
              /\ agentCalls' = agentCalls + 1
              /\ heap'[o].messages =
                    Append(heap[o].messages, Msg("user", reqs'[s].text))
              /\ Val(reqs'[s].gst).messages = heap'[o].messages
              /\ db' = db
        /\ (reqs[s].pc = "extracting" /\ reqs[s].branch = "fixes"
            /\ reqs'[s].pc # "extracting")
           => LET before == Val(reqs[s].gst).messages
                  st == heap'[reqs'[s].obj]
                  n == Len(before) IN
              /\ reqs'[s].pc = "done"
              /\ st.workflow_stage \in {"awaiting_fixes", "awaiting_confirmation"}
              /\ Len(st.messages) = n + 3
              /\ SubSeq(st.messages, 1, n) = before
              /\ before[n] = Msg("user", reqs[s].text)
              /\ st.messages[n + 1].content
                    \in {"analysis status", "Failed to analyze invoice"}
              /\ st.messages[n + 2].content
                    \in {"Policy violations found", "Policy verification passed",
                         "Failed to verify policies"}
              /\ store'[reqs[s].user] = reqs'[s].obj
              /\ db' = db

\* C5: every step of a behaviour routes a message received in awaiting_fixes through analysis and verification, as stated above.
C5_FixesAlwaysReanalysed == [][C5_FixesStep]_vars

\* the text CANCEL sent while fixes were awaited went through analysis and
\* verification and left the session awaiting fixes
C5_Witness ==
    \E s \in Slots :
        /\ reqs[s].pc = "done"
        /\ reqs[s].branch = "fixes"
        /\ reqs[s].text = "CANCEL"
        /\ heap[reqs[s].obj].workflow_stage = "awaiting_fixes"
        /\ \E i \in 1..Len(heap[reqs[s].obj].messages) :
              heap[reqs[s].obj].messages[i] = Msg("user", "CANCEL")


\* the agent raised, answered text that is not JSON, or reported
\* success = false
ExtractionFailed(o) == o.kind \in {"raise", "bad_json"} \/ ~o.success

\* C6: when the extraction fails during an analysis pass the caller gets
\* a regular response, invoices is exactly one record carrying
\* parsing_error, policy_violations contains the 'Failed to parse invoice
\* data' violation and the session suspends in awaiting_fixes.
C6_FailureStep ==
    \A s \in Slots, o \in ExtractionOutcomes :
        (ExtractionFailed(o) /\ AgentReturns(s, o))
        => LET st == heap'[reqs'[s].obj] IN
           /\ Val(reqs'[s].response).state = "VALIDATE"
           /\ Len(Invoices(st)) = 1
           /\ ~IsNone(Invoices(st)[1].parsing_error)
           /\ \E i \in 1..Len(Val(st.policy_violations)) :
                 Val(st.policy_violations)[i] = Violation(1, "parse_failed", "")
           /\ st.workflow_stage = "awaiting_fixes"
           /\ store'[reqs[s].user] = reqs'[s].obj

\* C6: every failed extraction ends as stated above.
C6_ExtractionFailureReported == [][C6_FailureStep]_vars

\* C7: an analysis pass never leaves fewer invoices than it found.
C7_AnalysisStep ==
    \A s \in Slots :
        (reqs[s].pc = "extracting" /\ reqs'[s].pc = "done")
        => Len(Invoices(heap'[reqs'[s].obj])) >= Len(Invoices(Val(reqs[s].gst)))

\* C7: no analysis pass of a behaviour shrinks the invoice list.
C7_AnalysisNeverShrinks == [][C7_AnalysisStep]_vars

\* C8: a session is never in awaiting_confirmation, confirmed or completed
\* with zero invoices.
C8_NeverConfirmsNothing ==
    \A o \in Objects :
        heap[o].workflow_stage \in {"awaiting_confirmation", "confirmed", "completed"}
        => Len(Invoices(heap[o])) > 0

\* C9: when a save raises during the confirm transition the caller gets an
\* error and the session stays stored in awaiting_confirmation with its
\* invoices, so that a later affirmative reply retries.
C9_SaveFailureStep ==
    \A s \in Slots :
        (reqs[s].pc = "saving" /\ reqs'[s].pc = "done" /\ db' = db)
        => LET o == reqs[s].obj IN
           /\ Val(reqs'[s].response).state = "ERROR"
           /\ store'[reqs[s].user] = o
           /\ heap'[o].workflow_stage = "awaiting_confirmation"
           /\ Len(Invoices(heap'[o])) = Len(Invoices(heap[o]))

\* C9: every failed save of a behaviour ends as stated above.
C9_SaveFailureKeepsConfirmation == [][C9_SaveFailureStep]_vars

InFlight(s) == reqs[s].pc \in {"extracting", "saving"}

\* C10: two requests of one user never overlap, and when a request stores
\* its result the store entry of its user is still the one it read when it
\* arrived.
C10_Step ==
    /\ \A s, t \in Slots :
          (s # t /\ InFlight(s) /\ InFlight(t)) => reqs[s].user # reqs[t].user
    /\ \A s \in Slots :
          (InFlight(s) /\ reqs'[s].pc = "done")
          => store[reqs[s].user] = reqs[s].existing_state

\* C10: the requests of one user are serialized in every step of a behaviour.
C10_RequestsSerialized == [][C10_Step]_vars

\* in this step slot s receives a call (of any branch)
ReceivesCall(s) ==
    /\ reqs[s].pc \in {"idle", "done"}
    /\ reqs'[s].seq = budget
    /\ budget' = budget - 1

TerminalStages == {"completed", "cancelled"}
SuspendStages == {"awaiting_fixes", "awaiting_confirmation"}

\* C11: no stored session that has not reached completed or cancelled is
\* a dead end: the next message of its user is fed into that session (it is
\* resumed as a correction or as a reply to the confirmation prompt, never
\* dropped for a fresh one), a correction after which the extraction has no
\* violation brings it to awaiting_confirmation, and a confirm or cancel
\* token then brings it to completed or cancelled unless a save raises.
C11_Step ==
    \A s \in Slots :
        /\ ReceivesCall(s)
           => LET o == store[reqs'[s].user] IN
              (o # 0 /\ heap[o].workflow_stage \notin TerminalStages)
              => /\ reqs'[s].branch \in {"fixes", "confirm"}
                 /\ heap[o].workflow_stage \in SuspendStages
        /\ (reqs[s].pc = "extracting" /\ reqs'[s].pc = "done")
           => LET st == heap'[reqs'[s].obj] IN
              (~IsNone(st.policy_violations) /\ ~HasViolations(st))
              => st.workflow_stage = "awaiting_confirmation"
        /\ (ReceivesCall(s) /\ reqs'[s].branch = "confirm"
            /\ StripUpper(reqs'[s].text) \in Affirmative \cup Negative)
           => heap'[store[reqs'[s].user]].workflow_stage
                 \in {"confirmed", "completed", "cancelled", "notification_failed"}

\* C11: every step of a behaviour keeps every unfinished session resumable.
C11_ValidInputsTerminate == [][C11_Step]_vars

\* C12: the session store never holds a session whose stage is completed
\* or cancelled (while a call is saving the stage is still confirmed, so
\* this is the state of the store after every return).
C12_NoTerminalSessionStored ==
    \A u \in Users :
        store[u] # 0 => heap[store[u]].workflow_stage \notin TerminalStages

\* nothing that belongs to user b changes in this step: its store entry,
\* its dicts, its coroutines and the invoices written so far
Frame(b) ==
    /\ store'[b] = store[b]
    /\ \A o \in Objects : heap[o].user_id = b => heap'[o] = heap[o]
    /\ \A t \in Slots : reqs[t].user = b => reqs'[t] = reqs[t]
    /\ Len(db') >= Len(db)
    /\ SubSeq(db', 1, Len(db)) = db

\* C13: a step of an operation for user a (a step of one of its calls, or
\* clear_user_state(a)) changes nothing that belongs to another user b; the
\* dict a call works on, the dict stored for a user and the invoices a call
\* writes are those of the user of the call, so that what a call of b
\* returns is determined by b's own state.
C13_Step ==
    /\ \A a \in Users, b \in Users :
          a # b =>
             /\ ClearUserState(a) => Frame(b)
             /\ \A s \in Slots :
                   (reqs'[s] # reqs[s] /\ reqs'[s].user = a) => Frame(b)
    /\ \A u \in Users :
          store'[u] # 0 => heap'[store'[u]].user_id = u
    /\ \A s \in Slots :
          /\ reqs'[s].obj # 0 => heap'[reqs'[s].obj].user_id = reqs'[s].user
          /\ reqs'[s].existing_state # 0
                => heap'[reqs'[s].existing_state].user_id = reqs'[s].user
    /\ \A i \in 1..Len(db') :
          /\ db'[i].invoice.user_id = heap'[db'[i].session].user_id
          /\ \A s \in Slots :
                (i > Len(db) /\ reqs'[s] # reqs[s])
                => db'[i].session = reqs[s].obj

\* C13: every step of a behaviour with two users keeps them independent.
C13_UsersIndependent == [][C13_Step]_vars

\* user u1 confirmed and its session completed while a correction of user
\* u2 was waiting for the agent, and the session of u2 is still stored
C13_Witness ==
    /\ reqs[1].pc = "done"
    /\ reqs[1].branch = "confirm"
    /\ heap[reqs[1].obj].workflow_stage = "completed"
    /\ store["u1"] = 0
    /\ reqs[2].pc = "extracting"
    /\ reqs[2].branch = "fixes"
    /\ store["u2"] = 2

\* C14: at every suspend point policy_violations is the result of applying
\* the policy rules to the invoices the state holds at that point (it is
\* recomputed by every verification pass, nothing of an earlier pass is
\* kept), so that verifying the same invoices again gives the same list.
C14_ViolationsMatchInvoices ==
    \A o \in Objects :
        heap[o].workflow_stage \in SuspendStages
        => /\ ~IsNone(heap[o].extracted_data)
           /\ heap[o].policy_violations
                 = Some(AllViolations(Val(heap[o].extracted_data), 1))
           /\ _policy_verification_node(heap[o]).policy_violations
                 = heap[o].policy_violations

(***************************************************************************)
(* The verification node on its own (SpecValidator): heap[1] is the state  *)
(* it is applied to.                                                       *)
(***************************************************************************)
Verified == ~IsNone(heap[1].policy_violations)
List == Val(heap[1].extracted_data)
Result == Val(heap[1].policy_violations)
Emitted(v) == \E i \in 1..Len(Result) : Result[i] = v
Count(k, rule) ==
    Cardinality({i \in 1..Len(Result) : Result[i].inv = k /\ Result[i].rule = rule})
ViolationsOf(k) == SelectSeq(Result, LAMBDA v : v.inv = k)
\* the record has no parsing_error key
NonError(rec) == IsNone(rec.parsing_error)

\* C15: for every invoice without parsing_error at position k and each of
\* tax_id, company_name, vendor_name, total_amount, the result holds
\* 'Invoice #k: Missing required field: <field>' exactly when the field is
\* absent, null, empty or zero.
C15_MissingFieldsReported ==
    Verified =>
    \A k \in 1..Len(List) :
        NonError(List[k]) =>
           /\ List[k].tax_id = "" <=> Emitted(Violation(k, "missing", "tax_id"))
           /\ List[k].company_name = ""
                 <=> Emitted(Violation(k, "missing", "company_name"))
           /\ List[k].vendor_name = ""
                 <=> Emitted(Violation(k, "missing", "vendor_name"))
           /\ List[k].total_amount \in {0, NullAmount}
                 <=> Emitted(Violation(k, "missing", "total_amount"))

C17_DateRule ==
    Verified =>
    \A k \in 1..Len(List) :
        NonError(List[k]) =>
           LET d == List[k].invoice_date IN
           /\ (d \notin {NoDate, BadDate} /\ Today - d > 30)
              => Count(k, "stale") = 1 /\ Count(k, "invalid_date") = 0
           /\ (d \notin {NoDate, BadDate} /\ Today - d <= 30)
              => Count(k, "stale") = 0 /\ Count(k, "invalid_date") = 0
           /\ d = BadDate
              => Count(k, "invalid_date") = 1 /\ Count(k, "stale") = 0

\* C18: a record that carries parsing_error gets exactly one violation,
\* 'Failed to parse invoice data', and none of the other rules; the other
\* records of the list get the violations of the rules.
C18_ParseErrorRecords ==
    Verified =>
    \A k \in 1..Len(List) :
        IF NonError(List[k])
        THEN ViolationsOf(k) = MealViolations(k, List[k])
                               \o DateViolations(k, List[k])
                               \o RequiredFieldViolations(k, List[k])
        ELSE ViolationsOf(k) = <<Violation(k, "parse_failed", "")>>

\* position of a violation in the rule order
Rank(v) ==
    CASE v.rule = "meal_limit" -> 1
      [] v.rule \in {"stale", "invalid_date"} -> 2
      [] v.rule = "missing" /\ v.arg = "tax_id" -> 3
      [] v.rule = "missing" /\ v.arg = "company_name" -> 4
      [] v.rule = "missing" /\ v.arg = "vendor_name" -> 5
      [] v.rule = "missing" /\ v.arg = "total_amount" -> 6
      [] OTHER -> 0

\* C19: every violation carries the position of an invoice of the list and
\* is one that the rules give for the invoice at that position; the list is
\* ordered by position and, for one invoice, by rule order.
C19_OrderedAndAttributed ==
    Verified =>
       /\ \A i \in 1..Len(Result) :
             /\ Result[i].inv \in 1..Len(List)
             /\ \E j \in 1..Len(InvoiceViolations(Result[i].inv, List[Result[i].inv])) :
                   InvoiceViolations(Result[i].inv, List[Result[i].inv])[j] = Result[i]
       /\ \A i \in 1..Len(Result), j \in 1..Len(Result) :
             i < j => \/ Result[i].inv < Result[j].inv
                      \/ /\ Result[i].inv = Result[j].inv
                         /\ Rank(Result[i]) < Rank(Result[j])

\* C20: the stage a call leaves behind follows the documented edges: a call
\* that starts a session (none stored, or a finished one) ends in
\* awaiting_fixes or awaiting_confirmation, so does a call received in
\* awaiting_fixes, and a call received in awaiting_confirmation ends in
\* awaiting_confirmation, completed or cancelled, without calling the agent;
\* between calls no other stage value is stored.
C20_Step ==
    /\ \A s \in Slots :
          /\ (reqs'[s] # reqs[s] /\ reqs'[s].pc = "done")
             => LET to == heap'[reqs'[s].obj].workflow_stage
                    r == reqs'[s] IN
                /\ r.branch = "new"
                   => /\ to \in SuspendStages
                      /\ \/ r.existing_state = 0
                         \/ heap'[r.existing_state].workflow_stage \in TerminalStages
                /\ r.branch = "fixes" => to \in SuspendStages
                /\ r.branch = "confirm"
                   => to \in {"awaiting_confirmation"} \cup TerminalStages
          /\ (ReceivesCall(s) /\ reqs'[s].branch = "confirm")
             => /\ agentCalls' = agentCalls
                /\ reqs'[s].pc # "extracting"
    /\ \A u \in Users :
          (/\ store'[u] # 0
           /\ \A s \in Slots : reqs'[s].user = u => reqs'[s].pc \in {"idle", "done"})
          => heap'[store'[u]].workflow_stage \in SuspendStages \cup TerminalStages

\* C20: every step of a behaviour follows the documented stage edges.
C20_StagesFollowEdges == [][C20_Step]_vars

(***************************************************************************)
(* InvoiceWorkflowHandler, the websocket front end of the same workflow.   *)
(* `store` is its _user_workflows and `reqs` holds its coroutines: the     *)
(* field sent of a call lists what the call passed to _send_message,       *)
(* response is what it returned and raised tells that it raised.           *)
(***************************************************************************)
MaxHandlerCalls == 2

\* lines 148-170: _send_message; delivered is FALSE when
\* send_status_update_async raised, which the except branch swallows
_send_message(r, content, status, delivered) ==
    [r EXCEPT !.sent = Append(@, [content |-> content, status |-> status,
                                  delivered |-> delivered])]

\* The entries of a log that are dicts: those appended by
\* handle_user_response and by _manager_notification_node when it is called
\* outside a graph run.  Every entry that went through a graph run is a
\* message object (the add_messages reducer of line 32 converts them).
DictContents ==
    {"Reimbursement request cancelled", "Please reply CONFIRM or CANCEL",
     "Reimbursement request submitted", "Failed to send manager notification"}

IsMessageObject(msg) == msg.content \notin DictContents

\* lines 132-144: the status sent with an assistant message; of the
\* contents above only the success message carries one of the marks
MessageStatus(content, stage) ==
    IF content = "Reimbursement request submitted" \/ stage = "completed"
    THEN "completed"
    ELSE IF stage = "awaiting_confirmation" THEN "awaiting_confirmation"
    ELSE "processing"

\* lines 124-146: message.get("role") raises AttributeError on the first
\* entry that is a message object; the dicts before it are sent
RECURSIVE _send_workflow_messages(_, _, _, _)
_send_workflow_messages(r, st, i, delivered) ==
    IF i > Len(st.messages) THEN [req |-> r, raised |-> FALSE]
    ELSE IF IsMessageObject(st.messages[i]) THEN [req |-> r, raised |-> TRUE]
    ELSE IF st.messages[i].role = "assistant"
    THEN _send_workflow_messages(
             _send_message(r, st.messages[i].content,
                           MessageStatus(st.messages[i].content, st.workflow_stage),
                           delivered),
             st, i + 1, delivered)
    ELSE _send_workflow_messages(r, st, i + 1, delivered)

\* lines 61-72 and 106-122: the state is stored, its messages are sent and,
\* in handle_user_response, a completed or cancelled session is evicted;
\* an exception on the way skips the rest and sends the error message
Finished(r, o, st, error, delivered) ==
    LET out == _send_workflow_messages(r, st, 1, delivered)
        evicted == /\ ~out.raised
                   /\ r.branch = "response"
                   /\ st.workflow_stage \in {"completed", "cancelled"}
        last == IF out.raised
                THEN _send_message(out.req, error, "error", delivered)
                ELSE out.req IN
    [store |-> [store EXCEPT ![r.user] = IF evicted THEN 0 ELSE o],
     req |-> [last EXCEPT !.pc = "done", !.obj = o, !.idx = 0, !.gst = None]]

\* lines 43-58: handle_invoice_request up to the call of the agent
handle_invoice_request(s, u, text, files, delivered) ==
    /\ CanReceive(s)
    /\ reqs' = [reqs EXCEPT ![s] =
                  [_send_message(Call(u, text, "request"),
                                 "Starting Invoice Processing Workflow",
                                 "processing", delivered)
                   EXCEPT !.pc = "extracting",
                          !.gst = Some(InitialState(u, text, files))]]
    /\ agentCalls' = agentCalls + 1
    /\ budget' = budget - 1
    /\ UNCHANGED <<heap, store, db>>

\* the reply taken as a first submission when no session is stored
NoActiveWorkflow_StartsWorkflow(s, u, text, delivered) ==
    /\ CanReceive(s)
    /\ store[u] = 0
    /\ reqs' = [reqs EXCEPT ![s] =
                  [Call(u, text, "response") EXCEPT
                      !.pc = "extracting",
                      !.gst = Some(InitialState(u, text, 0))]]
    /\ agentCalls' = agentCalls + 1
    /\ budget' = budget - 1
    /\ UNCHANGED <<heap, store, db>>

\* lines 88-95: handle_user_response without a stored session
NoActiveWorkflow(s, u, text, delivered) ==
    /\ CanReceive(s)
    /\ store[u] = 0
    /\ reqs' = [reqs EXCEPT ![s] =
                  [_send_message(Call(u, text, "response"), "No Active Workflow",
                                 "error", delivered)
                   EXCEPT !.pc = "done"]]
    /\ budget' = budget - 1
    /\ UNCHANGED <<heap, store, db, agentCalls>>

\* lines 100-103 with 690-696 of the workflow: the session awaits fixes
ResponseFixes(s, u, text) ==
    /\ CanReceive(s)
    /\ StoredStage(u) = "awaiting_fixes"
    /\ LET o == store[u]
           st == FixesAppended(heap[o], text) IN
       /\ heap' = [heap EXCEPT ![o] = st]
       /\ reqs' = [reqs EXCEPT ![s] =
                     [Call(u, text, "response") EXCEPT
                         !.pc = "extracting", !.obj = o, !.gst = Some(st)]]
    /\ agentCalls' = agentCalls + 1
    /\ budget' = budget - 1
    /\ UNCHANGED <<store, db>>

\* the agent answers a call of either method: the rest of the graph run,
\* then lines 61-64 or 106-113
HandlerAgentReturns(s, outcome, delivered) ==
    /\ reqs[s].pc = "extracting"
    /\ LET r == reqs[s]
           result == RunGraph(Val(r.gst), outcome)
           o == Len(heap) + 1
           error == IF r.branch = "request" THEN "Error Processing Invoice"
                    ELSE "Error Processing Response"
           fin == Finished(r, o, result, error, delivered) IN
       /\ heap' = Append(heap, result)
       /\ store' = fin.store
       /\ reqs' = [reqs EXCEPT ![s] = fin.req]
    /\ UNCHANGED <<db, agentCalls, budget>>

\* the reprompt appended whatever the stage
Replied_AlwaysReprompts(st, text) ==
    IF st.workflow_stage = "awaiting_confirmation" /\ StripUpper(text) \in Negative
    THEN Cancelled(st)
    ELSE Reprompted(st)

\* lines 666-704 of the workflow for a reply that needs neither the agent
\* nor the store: a cancellation or an unrecognised reply in
\* awaiting_confirmation, or any reply in another stage
Replied(st, text) ==
    IF st.workflow_stage # "awaiting_confirmation" THEN st
    ELSE IF StripUpper(text) \in Negative THEN Cancelled(st)
    ELSE Reprompted(st)

\* lines 100-113 for such a reply
ResponseReturns(s, u, text, delivered) ==
    /\ CanReceive(s)
    /\ store[u] # 0
    /\ StoredStage(u) # "awaiting_fixes"
    /\ StoredStage(u) = "awaiting_confirmation" => StripUpper(text) \notin Affirmative
    /\ LET o == store[u]
           st == Replied(heap[o], text)
           fin == Finished(Call(u, text, "response"), o, st,
                           "Error Processing Response", delivered) IN
       /\ heap' = [heap EXCEPT ![o] = st]
       /\ store' = fin.store
       /\ reqs' = [reqs EXCEPT ![s] = fin.req]
    /\ budget' = budget - 1
    /\ UNCHANGED <<db, agentCalls>>

\* lines 100-103 for a confirmation: the notification node runs up to its
\* first save, or to its end when there is nothing to save
ResponseConfirm(s, u, text, delivered) ==
    /\ CanReceive(s)
    /\ StoredStage(u) = "awaiting_confirmation"
    /\ StripUpper(text) \in Affirmative
    /\ LET o == store[u]
           st == Confirmed(heap[o])
           first == NextToSave(Val(st.extracted_data), 1)
           r == Call(u, text, "response")
           end == IF TotalRaises(st) THEN NotificationFailed(st)
                  ELSE NotificationSent(st)
           fin == Finished(r, o, end, "Error Processing Response", delivered) IN
       IF TotalRaises(st) \/ first > Len(Val(st.extracted_data))
       THEN /\ heap' = [heap EXCEPT ![o] = end]
            /\ store' = fin.store
            /\ reqs' = [reqs EXCEPT ![s] = fin.req]
       ELSE /\ heap' = [heap EXCEPT ![o] = st]
            /\ reqs' = [reqs EXCEPT ![s] =
                          [r EXCEPT !.pc = "saving", !.obj = o, !.idx = first]]
            /\ UNCHANGED store
    /\ budget' = budget - 1
    /\ UNCHANGED <<db, agentCalls>>

\* _save_reimbursement_form for the invoice at position idx returns; after
\* the last one lines 106-113
HandlerSaveSucceeds(s, delivered) ==
    /\ reqs[s].pc = "saving"
    /\ ~InvoiceRaises(Val(heap[reqs[s].obj].extracted_data)[reqs[s].idx])
    /\ LET r == reqs[s]
           o == r.obj
           st == Stamp(heap[o], r.idx)
           list == Val(st.extracted_data)
           next == NextToSave(list, r.idx + 1)
           fin == Finished(r, o, NotificationSent(st),
                           "Error Processing Response", delivered) IN
       /\ db' = Append(db, [session |-> o, position |-> r.idx,
                            invoice |-> list[r.idx]])
       /\ IF next > Len(list)
          THEN /\ heap' = [heap EXCEPT ![o] = NotificationSent(st)]
               /\ store' = fin.store
               /\ reqs' = [reqs EXCEPT ![s] = fin.req]
          ELSE /\ heap' = [heap EXCEPT ![o] = st]
               /\ reqs' = [reqs EXCEPT ![s].idx = next]
               /\ UNCHANGED store
    /\ UNCHANGED <<agentCalls, budget>>

\* _save_reimbursement_form for the invoice at position idx raises
HandlerSaveFails(s, delivered) ==
    /\ reqs[s].pc = "saving"
    /\ LET r == reqs[s]
           o == r.obj
           st == NotificationFailed(Stamp(heap[o], r.idx))
           fin == Finished(r, o, st, "Error Processing Response", delivered) IN
       /\ heap' = [heap EXCEPT ![o] = st]
       /\ store' = fin.store
       /\ reqs' = [reqs EXCEPT ![s] = fin.req]
    /\ UNCHANGED <<db, agentCalls, budget>>

\* lines 190-200
cancel_workflow(s, u, delivered) ==
    /\ CanReceive(s)
    /\ LET r == Call(u, "", "cancel") IN
       IF store[u] # 0
       THEN /\ store' = [store EXCEPT ![u] = 0]
            /\ reqs' = [reqs EXCEPT ![s] =
                          [_send_message(r, "Workflow Cancelled", "cancelled",
                                         delivered)
                           EXCEPT !.pc = "done", !.response = Some(TRUE)]]
       ELSE /\ reqs' = [reqs EXCEPT ![s] =
                          [r EXCEPT !.pc = "done", !.response = Some(FALSE)]]
            /\ UNCHANGED store
    /\ budget' = budget - 1
    /\ UNCHANGED <<heap, db, agentCalls>>

\* lines 178-184: the record get_workflow_status builds
StatusRecord(u, st) ==
    [user_id |-> u,
     stage |-> st.workflow_stage,
     has_violations |-> HasViolations(st),
     awaiting_confirmation |-> st.workflow_stage = "awaiting_confirmation",
     form_id |-> None]

\* line 183: workflow_state.get("reimbursement_form", {}) is None when the
\* key is there with the value None, and None has no get
StatusRaises(st) == IsNone(st.reimbursement_form)

\* lines 172-184
get_workflow_status(s, u) ==
    /\ CanReceive(s)
    /\ LET r == [Call(u, "", "status") EXCEPT !.pc = "done", !.obj = store[u]] IN
       reqs' = [reqs EXCEPT ![s] =
                  IF store[u] = 0 THEN r
                  ELSE IF StatusRaises(heap[store[u]])
                  THEN [r EXCEPT !.raised = TRUE]
                  ELSE [r EXCEPT !.response =
                                    Some(StatusRecord(u, heap[store[u]]))]]
    /\ budget' = budget - 1
    /\ UNCHANGED <<heap, store, db, agentCalls>>

\* the handler is idle; the user has no session, or one that an earlier
\* handle_invoice_request left suspended
InitHandler ==
    /\ \/ heap = <<>> /\ store = [u \in {"u1"} |-> 0]
       \/ /\ \E st \in SuspendedSessions("u1") : heap = <<st>>
          /\ store = [u \in {"u1"} |-> 1]
    /\ reqs = [s \in {1} |-> IdleReq]
    /\ db = <<>>
    /\ agentCalls = 0
    /\ budget = MaxHandlerCalls

NextHandler ==
    \/ \E s \in Slots, u \in Users, text \in Submissions, files \in Attachments,
          delivered \in BOOLEAN :
          handle_invoice_request(s, u, text, files, delivered)
    \/ \E s \in Slots, u \in Users, text \in Replies, delivered \in BOOLEAN :
          NoActiveWorkflow(s, u, text, delivered)
    \/ \E s \in Slots, u \in Users, text \in Corrections : ResponseFixes(s, u, text)
    \/ \E s \in Slots, outcome \in ExtractionOutcomes, delivered \in BOOLEAN :
          HandlerAgentReturns(s, outcome, delivered)
    \/ \E s \in Slots, u \in Users, text \in Replies, delivered \in BOOLEAN :
          ResponseReturns(s, u, text, delivered)
    \/ \E s \in Slots, u \in Users, text \in Replies, delivered \in BOOLEAN :
          ResponseConfirm(s, u, text, delivered)
    \/ \E s \in Slots, delivered \in BOOLEAN : HandlerSaveSucceeds(s, delivered)
    \/ \E s \in Slots, delivered \in BOOLEAN : HandlerSaveFails(s, delivered)
    \/ \E s \in Slots, u \in Users, delivered \in BOOLEAN :
          cancel_workflow(s, u, delivered)
    \/ \E s \in Slots, u \in Users : get_workflow_status(s, u)

SpecHandler == InitHandler /\ [][NextHandler]_vars

\* C21: a state stored at a suspend point holds no attachment: every
\* analysis pass, whether the extraction succeeded or failed, leaves images
\* empty.
C21_NoAttachmentsAtSuspend ==
    \A o \in Objects :
        heap[o].workflow_stage \in SuspendStages => heap[o].images = 0

\* C22: manager_notification_sent is true only in stage completed with
\* user_confirmation true; in every other stage it is unset.
C22_FlagOnlyWhenCompleted ==
    \A o \in Objects :
        /\ heap[o].manager_notification_sent \in {None, Some(TRUE)}
        /\ heap[o].manager_notification_sent = Some(TRUE)
           => /\ heap[o].workflow_stage = "completed"
              /\ heap[o].user_confirmation = Some(TRUE)

\* a session of one invoice was confirmed with "ok" and completed with the
\* flag set
C22_Witness ==
    \E s \in Slots :
        /\ AnsweredConfirmation(s)
        /\ reqs[s].text = "ok"
        /\ heap[reqs[s].obj].manager_notification_sent = Some(TRUE)
        /\ heap[reqs[s].obj].workflow_stage = "completed"
        /\ Len(Invoices(heap[reqs[s].obj])) = 1

DocumentedStates == {"EXTRACT", "VALIDATE", "CONFIRM", "NOTIFY", "CANCELLED"}

\* C25: every call returns an object with state, message and invoices whose
\* state is the documented state of the stage of the session, or ERROR
\* with no invoices.
C25_AlwaysDocumentedResponse ==
    \A s \in Slots :
        reqs[s].pc = "done"
        => LET resp == Val(reqs[s].response) IN
           /\ ~IsNone(reqs[s].response)
           /\ DOMAIN resp = {"state", "message", "invoices"}
           /\ \/ /\ resp.state \in DocumentedStates
                 /\ resp.state = stage_to_state(heap[reqs[s].obj].workflow_stage)
              \/ /\ resp.state = "ERROR"
                 /\ resp.invoices = <<>>

\* the call of slot s that has returned
Returned(s, branch) == reqs[s].pc = "done" /\ reqs[s].branch = branch
RespState(s) == Val(reqs[s].response).state
Session(s) == heap[reqs[s].obj]
StoredAt(s) == store[reqs[s].user] = reqs[s].obj

IsPrefix(a, b) == Len(a) <= Len(b) /\ SubSeq(b, 1, Len(a)) = a

\* the most recent user entry of a log
RECURSIVE LastUserEntry(_)
LastUserEntry(log) ==
    IF log = <<>> THEN ""
    ELSE IF log[Len(log)].role = "user" THEN log[Len(log)].content
         ELSE LastUserEntry(SubSeq(log, 1, Len(log) - 1))

\* C28: no step shortens or rewrites the log of a state: the log a state
\* had is a prefix of the log it has afterwards, the log a graph run
\* returns starts with the log it was given, and when the extraction is
\* called for a correction the correction is the most recent user entry.
C28_Step ==
    /\ \A o \in Objects : IsPrefix(heap[o].messages, heap'[o].messages)
    /\ \A s \in Slots :
          /\ (reqs[s].pc = "extracting" /\ reqs'[s].pc = "done")
             => IsPrefix(Val(reqs[s].gst).messages, heap'[reqs'[s].obj].messages)
          /\ (reqs'[s].pc = "extracting" /\ reqs[s].pc # "extracting"
              /\ reqs'[s].branch = "fixes")
             => /\ IsPrefix(heap[store[reqs'[s].user]].messages,
                            Val(reqs'[s].gst).messages)
                /\ LastUserEntry(Val(reqs'[s].gst).messages) = reqs'[s].text
                /\ Len(Val(reqs'[s].gst).messages)
                      = Len(heap[store[reqs'[s].user]].messages) + 1

\* C28: the message log is append-only in every step of a behaviour.
C28_LogAppendOnly == [][C28_Step]_vars

\* a cancelled session whose log still starts with the first submission
\* and holds a correction
C28_Witness ==
    \E o \in Objects :
        /\ heap[o].workflow_stage = "cancelled"
        /\ Len(heap[o].messages) >= 9
        /\ heap[o].messages[1] = Msg("user", "invoice KFC 250 meal")
        /\ LastUserEntry(heap[o].messages) = "tax id 123456789"

\* a call of the handler is received in this step
Starts(s) == budget' < budget /\ reqs'[s].seq = budget

C23_Step ==
    /\ \A s \in Slots :
          (/\ Starts(s)
           /\ reqs'[s].pc = "extracting"
           /\ Len(Val(reqs'[s].gst).messages) = 1)
          => store[reqs'[s].user] = 0
    /\ \A u \in Users :
          (store[u] # 0 /\ store'[u] # 0)
          => /\ IsPrefix(heap[store[u]].messages, heap'[store'[u]].messages)
             /\ heap'[store'[u]].workflow_stage \in SuspendStages
                => ~IsNone(heap'[store'[u]].extracted_data)

\* C23: a submission starts a fresh session only when none is stored for
\* the user; a stored session is resumed and never replaced by a fresh one.
C23_NeverReplacesStoredSession == [][C23_Step]_vars

C24_Step ==
    \A s \in Slots :
        (/\ Starts(s)
         /\ reqs'[s].branch = "response"
         /\ store[reqs'[s].user] = 0)
        => /\ reqs'[s].pc = "done"
           /\ ~reqs'[s].raised
           /\ Len(reqs'[s].sent) = 1
           /\ reqs'[s].sent[1].content = "No Active Workflow"
           /\ reqs'[s].sent[1].status = "error"
           /\ UNCHANGED <<heap, store, db, agentCalls>>

\* C24: handle_user_response for a user without a stored session sends the
\* No Active Workflow message and nothing else, calls neither the workflow,
\* the agent nor the store, and creates no session.
C24_NoSessionNoEffect == [][C24_Step]_vars

\* a reply was answered with the No Active Workflow message, which was
\* delivered, and the user still has no session
C24_Witness ==
    \E s \in Slots :
        /\ Returned(s, "response")
        /\ reqs[s].existing_state = 0
        /\ reqs[s].text = "CONFIRM"
        /\ reqs[s].sent = <<[content |-> "No Active Workflow", status |-> "error",
                             delivered |-> TRUE]>>
        /\ store[reqs[s].user] = 0
        /\ heap = <<>>

\* C27: when a message could not be delivered after the invoices of a
\* confirmed session were saved, the stage stays completed, the invoices
\* stay saved, the session is evicted and the call does not raise.
C27_DeliveryFailureKeepsOutcome ==
    \A s \in Slots :
        (/\ Returned(s, "response")
         /\ reqs[s].obj # 0
         /\ Session(s).user_confirmation = Some(TRUE)
         /\ SavedExactlyOnce(reqs[s].obj, Invoices(Session(s)))
         /\ \E i \in 1..Len(reqs[s].sent) : ~reqs[s].sent[i].delivered)
        => /\ Session(s).workflow_stage = "completed"
           /\ ~reqs[s].raised
           /\ store[reqs[s].user] = 0

C29_Step ==
    /\ \A s \in Slots :
          (Starts(s) /\ reqs'[s].branch = "cancel")
          => LET o == store[reqs'[s].user] IN
             /\ reqs'[s].pc = "done"
             /\ reqs'[s].response = Some(o # 0)
             /\ store'[reqs'[s].user] = 0
             /\ o # 0 => \A i \in 1..Len(db) : db[i].session # o
    /\ Len(db') > Len(db)
       => \E u \in Users : store[u] = db'[Len(db')].session

\* C29: cancel_workflow returns true exactly when the user had a stored
\* session, afterwards the user has none, and no invoice of a cancelled
\* session has been or is saved.
C29_CancelDropsUnsavedSession == [][C29_Step]_vars

\* C30: get_workflow_status returns None without a stored session and, for
\* every stored session, returns without raising a record with its stage,
\* has_violations true exactly when violations are recorded and
\* awaiting_confirmation true exactly in that stage.
C30_StatusOfEveryStoredSession ==
    \A s \in Slots :
        Returned(s, "status")
        => /\ ~reqs[s].raised
           /\ reqs[s].obj = 0 <=> IsNone(reqs[s].response)
           /\ reqs[s].obj # 0
              => LET rec == Val(reqs[s].response) IN
                 /\ rec.stage = Session(s).workflow_stage
                 /\ rec.has_violations <=> HasViolations(Session(s))
                 /\ rec.awaiting_confirmation
                       <=> Session(s).workflow_stage = "awaiting_confirmation"

ConfirmTokens == {"CONFIRM", "YES", "APPROVE", "OK"}

C36_Step ==
    /\ Len(db') > Len(db)
       => \E s \in Slots :
             /\ reqs[s].pc = "saving"
             /\ db' = Append(db, db'[Len(db')])
             /\ db'[Len(db')].session = reqs[s].obj
             /\ ~HasParsingError(db'[Len(db')].invoice)
    /\ \A s \in Slots :
          reqs'[s].pc = "saving"
          => /\ StripUpper(reqs'[s].text) \in ConfirmTokens
             /\ heap'[reqs'[s].obj].user_confirmation = Some(TRUE)
             /\ ~HasViolations(heap'[reqs'[s].obj])
             /\ reqs[s].pc # "saving"
                => /\ store[reqs'[s].user] = reqs'[s].obj
                   /\ heap[reqs'[s].obj].workflow_stage = "awaiting_confirmation"
    /\ \A i \in 1..Len(db') :
          heap'[db'[i].session].workflow_stage
             \in {"confirmed", "completed", "notification_failed"}

\* C36: every save belongs to a call that received an affirmative token
\* for a session in awaiting_confirmation without violations; nothing is
\* saved for a cancelled session or for a record with parsing_error.
C36_SavesOnlyAfterConfirmation == [][C36_Step]_vars

\* two invoices were saved for a session confirmed with " yes "
C36_Witness ==
    \E s \in Slots :
        /\ Returned(s, "confirm")
        /\ reqs[s].text = " yes "
        /\ Len(db) = 2
        /\ db[1].session = reqs[s].obj
        /\ db[2].session = reqs[s].obj
        /\ Session(s).workflow_stage = "completed"

\* C37: once no call is saving for a session, either every non-error
\* invoice of the session has been saved once and the stage is completed,
\* or none has been saved; no invoice is ever saved twice.
C37_AllOrNothing ==
    \A o \in Objects :
        /\ \A k \in 1..Len(Invoices(heap[o])) : SaveCount(o, k) <= 1
        /\ (\A s \in Slots : ~(reqs[s].pc = "saving" /\ reqs[s].obj = o))
           => \/ /\ SavedExactlyOnce(o, Invoices(heap[o]))
                 /\ heap[o].workflow_stage = "completed"
              \/ \A i \in 1..Len(db) : db[i].session # o

C38_Step ==
    \A s \in Slots :
        (/\ Starts(s)
         /\ reqs'[s].branch = "response"
         /\ store[reqs'[s].user] # 0
         /\ StoredStage(reqs'[s].user) \notin SuspendStages)
        => /\ reqs'[s].pc = "done"
           /\ reqs'[s].obj = store[reqs'[s].user]
           /\ UNCHANGED <<heap, db, agentCalls>>

\* C38: handle_user_response on a state whose stage is neither
\* awaiting_confirmation nor awaiting_fixes returns the state unchanged and
\* calls neither the extraction nor the store.
C38_OtherStagesUnchanged == [][C38_Step]_vars

\* a reply was handled for a session that had been cancelled before
C38_Witness ==
    \E s \in Slots :
        /\ Returned(s, "response")
        /\ reqs[s].obj # 0
        /\ reqs[s].existing_state = reqs[s].obj
        /\ reqs[s].text = "CONFIRM"
        /\ Session(s).workflow_stage = "cancelled"
        /\ Session(s).messages[Len(Session(s).messages)]
              = Msg("assistant", "Reimbursement request cancelled")

NoDateGiven(rec) == rec.invoice_date \in {NoDate, NullDate}

\* C39: for a non-error invoice without a date verification records
\* neither a staleness nor an invalid-date violation, and the save of such
\* an invoice of a confirmed session is not refused.
C39_NoDatePassesAndSaves ==
    /\ \A o \in Objects : \A k \in 1..Len(Invoices(heap[o])) :
          (/\ ~HasParsingError(Invoices(heap[o])[k])
           /\ NoDateGiven(Invoices(heap[o])[k])
           /\ ~IsNone(heap[o].policy_violations))
          => \A i \in 1..Len(Val(heap[o].policy_violations)) :
                LET v == Val(heap[o].policy_violations)[i] IN
                ~(v.inv = k /\ v.rule \in {"stale", "invalid_date"})
    /\ \A s \in Slots :
          (/\ reqs[s].pc = "saving"
           /\ NoDateGiven(Invoices(heap[reqs[s].obj])[reqs[s].idx]))
          => ~InvoiceRaises(Invoices(heap[reqs[s].obj])[reqs[s].idx])

C40_Step ==
    \A s \in Slots :
        (/\ Starts(s)
         /\ reqs'[s].branch = "fixes"
         /\ reqs'[s].images # 0)
        => /\ reqs'[s].pc = "extracting"
           /\ Val(reqs'[s].gst).images = reqs'[s].images

\* C40: the attachments of a message that resumes a session in
\* awaiting_fixes are the images of the state handed to the analysis pass.
C40_ResumeAttachmentsReachAnalysis == [][C40_Step]_vars

(***************************************************************************)
(* InvoiceManagerPlugin: the manager's tools on the invoice store.  Here   *)
(* `db` is the content of the store, one record per invoice in the order   *)
(* get_invoices_by_manager returns them, `reqs` holds the tool calls in    *)
(* progress and `budget` the calls still to come; heap, store and          *)
(* agentCalls are not used.  The store itself is outside the sources:      *)
(* get_invoice_by_id and get_invoices_by_manager return copies of what is  *)
(* stored, update_invoice replaces the record of the same invoice_id or    *)
(* raises.                                                                 *)
(***************************************************************************)
MaxManagerCalls == 2
MaxOverlappingCalls == 2

\* self.manager_id of the plugin
ManagerId == "m1"

StoredInvoice(id, manager, status) ==
    [invoice_id |-> id, manager_id |-> manager, status |-> status,
     rejection_reason |-> None]

\* contents of the store when the calls begin
InitialStores ==
    { <<StoredInvoice("INV1", "m1", "pending"), StoredInvoice("INV3", "m2", "pending"),
        StoredInvoice("INV2", "m1", "pending"), StoredInvoice("INV4", "m1", "approved"),
        StoredInvoice("INV5", "m1", "pending")>>,
      <<StoredInvoice("INV4", "m1", "cancelled"), StoredInvoice("INV3", "m2", "pending")>> }

\* str.strip() and str.lower() on the texts used below
Strip(t) ==
    CASE t = " INV2 " -> "INV2"
      [] t = " " -> ""
      [] OTHER -> t

Lower(t) ==
    CASE t = "APPROVED" -> "approved"
      [] t = "Rejected" -> "rejected"
      [] OTHER -> t

\* line 142: the pieces of invoice_id.split(','), stripped, the empty ones
\* dropped
RECURSIVE ParseIds(_)
ParseIds(pieces) ==
    IF pieces = <<>> THEN <<>>
    ELSE IF Strip(Head(pieces)) = "" THEN ParseIds(Tail(pieces))
         ELSE <<Strip(Head(pieces))>> \o ParseIds(Tail(pieces))

\* the invoice_id arguments, as their pieces between commas
IdArguments ==
    { <<"INV1">>, <<"INV1", " INV2 ">>, <<"INV9", "INV3", "INV4", "INV5">>,
      <<"INV1", "INV1">>, <<"">>, <<" ", "">> }

StatusArguments == {"approved", "rejected", "APPROVED", "Rejected", "pending", ""}

\* the page and page_size arguments
PageArguments == {-1, 0, 1, 2, 3}
PageSizeArguments == {-1, 0, 1, 2, 100, 101}

IdleCall ==
    [pc |-> "idle", seq |-> 0, op |-> "", ids |-> <<>>, new_status |-> "",
     rejection_reason |-> None, i |-> 0, invoice |-> None, results |-> <<>>,
     success_count |-> 0, error_count |-> 0, page |-> 0, page_size |-> 0,
     response |-> None]

\* the store's get_invoice_by_id: the position of the invoice in the
\* store, 0 (None) when there is none
get_invoice_by_id(id) ==
    IF \E k \in 1..Len(db) : db[k].invoice_id = id
    THEN CHOOSE k \in 1..Len(db) : db[k].invoice_id = id
    ELSE 0

\* the store's get_invoices_by_manager
OfManager(inv) == inv.manager_id = ManagerId
get_invoices_by_manager == SelectSeq(db, OfManager)

\* the store's update_invoice: the stored record of the same invoice_id is
\* replaced, whatever it holds by now
update_invoice(invoice) ==
    [db EXCEPT ![get_invoice_by_id(invoice.invoice_id)] = invoice]

\* lines 61-67
IsPending(inv) == inv.status = "pending"
PendingInvoices == SelectSeq(get_invoices_by_manager, IsPending)

\* python list[a:b] for 0 <= a <= b
Slice(list, a, b) ==
    IF a >= Len(list) THEN <<>>
    ELSE SubSeq(list, a + 1, IF b < Len(list) THEN b ELSE Len(list))

\* line 72 with floor instead of ceiling division
TotalPages_Floor(total_invoices, page_size) == total_invoices \div page_size

\* line 72
TotalPages(total_invoices, page_size) ==
    (total_invoices + page_size - 1) \div page_size

\* lines 50-55
ValidPage(page) == IF page < 1 THEN 1 ELSE page
ValidPageSize(page_size) ==
    IF page_size < 1 THEN 10 ELSE IF page_size > 100 THEN 100 ELSE page_size

InvoiceIds(list) == [k \in 1..Len(list) |-> list[k].invoice_id]

\* lines 50-113: what query_pending_invoices returns for a list of pending
\* invoices
QueryResult(pending_invoices, page_arg, page_size_arg) ==
    LET page == ValidPage(page_arg)
        page_size == ValidPageSize(page_size_arg)
        total_invoices == Len(pending_invoices)
        total_pages == TotalPages(total_invoices, page_size)
        start_idx == (page - 1) * page_size
        page_invoices == Slice(pending_invoices, start_idx, start_idx + page_size) IN
    IF page_invoices = <<>> /\ total_invoices > 0
    THEN [kind |-> "out_of_range", page |-> page, total_pages |-> total_pages]
    ELSE IF pending_invoices = <<>>
    THEN [kind |-> "no_pending"]
    ELSE [kind |-> "page", total_pending |-> total_invoices, page |-> page,
          page_size |-> page_size, total_pages |-> total_pages,
          showing |-> Len(page_invoices), invoices |-> InvoiceIds(page_invoices)]

\* lines 47-113: one read of the store, then the answer
query_pending_invoices(s, page, page_size) ==
    /\ CanReceive(s)
    /\ reqs' = [reqs EXCEPT ![s] =
                  [IdleCall EXCEPT
                      !.pc = "done", !.seq = budget, !.op = "query",
                      !.page = page, !.page_size = page_size,
                      !.response = Some(QueryResult(PendingInvoices, page, page_size))]]
    /\ budget' = budget - 1
    /\ UNCHANGED <<heap, store, db, agentCalls>>

\* lines 204-218: the summary returned after the loop
Summary(r) ==
    [kind |-> "summary", total |-> Len(r.ids), success |-> r.success_count,
     errors |-> r.error_count, results |-> r.results]

\* the loop goes on with the next ID: db.get_invoice_by_id is awaited, or
\* the summary is returned when the IDs are exhausted
NextId(r) ==
    IF r.i >= Len(r.ids)
    THEN [r EXCEPT !.pc = "done", !.invoice = None, !.response = Some(Summary(r))]
    ELSE [r EXCEPT !.pc = "getting", !.i = r.i + 1, !.invoice = None]

\* lines 140-164: update_invoice_status up to the first read of the store
update_invoice_status(s, invoice_id, new_status, rejection_reason) ==
    /\ CanReceive(s)
    /\ LET r == [IdleCall EXCEPT
                    !.seq = budget, !.op = "update", !.ids = ParseIds(invoice_id),
                    !.new_status = new_status,
                    !.rejection_reason = rejection_reason] IN
       reqs' = [reqs EXCEPT ![s] =
                  IF r.ids = <<>>
                  THEN [r EXCEPT !.pc = "done", !.response = Some([kind |-> "no_ids"])]
                  ELSE IF Lower(new_status) \notin {"approved", "rejected"}
                  THEN [r EXCEPT !.pc = "done",
                                 !.response = Some([kind |-> "invalid_status"])]
                  ELSE NextId(r)]
    /\ budget' = budget - 1
    /\ UNCHANGED <<heap, store, db, agentCalls>>

\* the result appended for the current ID and the counter it adds to
Counted(r, result) ==
    [r EXCEPT !.results = Append(@, [invoice_id |-> r.ids[r.i], result |-> result]),
              !.success_count = IF result = "updated" THEN @ + 1 ELSE @,
              !.error_count = IF result = "updated" THEN @ ELSE @ + 1]

\* lines 166-181 without the test of the status
Refusal_NoPendingCheck(k) ==
    IF k = 0 THEN "not_found"
    ELSE IF db[k].manager_id # ManagerId THEN "not_authorized"
    ELSE ""

\* lines 166-181: why the invoice read at position k is not updated
Refusal(k) ==
    IF k = 0 THEN "not_found"
    ELSE IF db[k].manager_id # ManagerId THEN "not_authorized"
    ELSE IF db[k].status # "pending" THEN "already_processed"
    ELSE ""

\* lines 184-191: the copy of the invoice with the new status
Updated(inv, new_status, rejection_reason) ==
    IF Lower(new_status) = "approved"
    THEN [inv EXCEPT !.status = "approved", !.rejection_reason = None]
    ELSE [inv EXCEPT !.status = "rejected", !.rejection_reason = rejection_reason]

\* lines 164-194: db.get_invoice_by_id returns; the invoice is refused, or
\* changed and handed to db.update_invoice
GetInvoiceReturns(s) ==
    /\ reqs[s].pc = "getting"
    /\ LET r == reqs[s]
           k == get_invoice_by_id(r.ids[r.i]) IN
       reqs' = [reqs EXCEPT ![s] =
                  IF Refusal(k) # ""
                  THEN NextId(Counted(r, Refusal(k)))
                  ELSE [r EXCEPT !.pc = "updating",
                                 !.invoice = Some(Updated(db[k], r.new_status,
                                                          r.rejection_reason))]]
    /\ UNCHANGED <<heap, store, db, agentCalls, budget>>

\* lines 194-198: db.update_invoice returns
UpdateInvoiceReturns(s) ==
    /\ reqs[s].pc = "updating"
    /\ LET r == reqs[s] IN
       /\ db' = update_invoice(Val(r.invoice))
       /\ reqs' = [reqs EXCEPT ![s] = NextId(Counted(r, "updated"))]
    /\ UNCHANGED <<heap, store, agentCalls, budget>>

\* lines 200-202: db.update_invoice raises
UpdateInvoiceRaises(s) ==
    /\ reqs[s].pc = "updating"
    /\ reqs' = [reqs EXCEPT ![s] = NextId(Counted(reqs[s], "error"))]
    /\ UNCHANGED <<heap, store, db, agentCalls, budget>>

InitManager ==
    /\ heap = <<>>
    /\ store = <<>>
    /\ reqs = [s \in {1} |-> IdleCall]
    /\ db \in InitialStores
    /\ agentCalls = 0
    /\ budget = MaxManagerCalls

\* two tool calls may be in progress at the same time
InitManagerConcurrent ==
    /\ heap = <<>>
    /\ store = <<>>
    /\ reqs = [s \in {1, 2} |-> IdleCall]
    /\ db \in InitialStores
    /\ agentCalls = 0
    /\ budget = MaxOverlappingCalls

NextManager ==
    \/ \E s \in Slots, page \in PageArguments, page_size \in PageSizeArguments :
          query_pending_invoices(s, page, page_size)
    \/ \E s \in Slots, invoice_id \in IdArguments, new_status \in StatusArguments,
          rejection_reason \in {None, Some("duplicate")} :
          update_invoice_status(s, invoice_id, new_status, rejection_reason)
    \/ \E s \in Slots : GetInvoiceReturns(s)
    \/ \E s \in Slots : UpdateInvoiceReturns(s)
    \/ \E s \in Slots : UpdateInvoiceRaises(s)

SpecManager == InitManager /\ [][NextManager]_vars
SpecManagerConcurrent == InitManagerConcurrent /\ [][NextManager]_vars

\* the invoice of the store with this id may be updated by the manager
Eligible(id) ==
    \E k \in 1..Len(db) :
        /\ db[k].invoice_id = id
        /\ db[k].manager_id = ManagerId
        /\ db[k].status = "pending"

C31_Step ==
    /\ Len(db') = Len(db)
    /\ \A k \in 1..Len(db) :
          db'[k] # db[k]
          => /\ db[k].manager_id = ManagerId
             /\ db[k].status = "pending"
             /\ db'[k].invoice_id = db[k].invoice_id
             /\ db'[k].manager_id = db[k].manager_id
             /\ \E s \in Slots :
                   /\ reqs[s].op = "update"
                   /\ reqs[s].ids[reqs[s].i] = db[k].invoice_id
                   /\ db'[k].status = Lower(reqs[s].new_status)
                   /\ db'[k].status \in {"approved", "rejected"}
                   /\ reqs'[s].success_count = reqs[s].success_count + 1
                   /\ reqs'[s].error_count = reqs[s].error_count
    /\ \A s \in Slots :
          /\ (reqs[s].pc = "getting" /\ ~Eligible(reqs[s].ids[reqs[s].i]))
             => /\ db' = db
                /\ reqs'[s].error_count = reqs[s].error_count + 1
                /\ reqs'[s].success_count = reqs[s].success_count
                /\ reqs'[s].pc = IF reqs[s].i = Len(reqs[s].ids) THEN "done"
                                 ELSE "getting"
          /\ (Starts(s) /\ reqs'[s].op = "update")
             => /\ db' = db
                /\ (\/ reqs'[s].ids = <<>>
                    \/ Lower(reqs'[s].new_status) \notin {"approved", "rejected"})
                   => reqs'[s].pc = "done"
          /\ (reqs'[s].op = "update" /\ reqs'[s].pc = "done"
              /\ Val(reqs'[s].response).kind = "summary")
             => /\ reqs'[s].success_count + reqs'[s].error_count = Len(reqs'[s].ids)
                /\ Len(reqs'[s].results) = Len(reqs'[s].ids)
                /\ \A j \in 1..Len(reqs'[s].ids) :
                      reqs'[s].results[j].invoice_id = reqs'[s].ids[j]

\* C31: update_invoice_status changes an invoice only if it exists, belongs
\* to the acting manager and is pending; any other listed ID is counted as
\* an error and left unchanged, the remaining IDs are still processed,
\* success_count + error_count is the number of IDs, an empty list or
\* another status changes nothing, and an invoice that is no longer pending
\* is never changed.
C31_BatchUpdate == [][C31_Step]_vars

\* a batch of four IDs ended with one invoice updated and three refused
\* for the three different reasons
C31_Witness ==
    \E s \in Slots :
        /\ reqs[s].pc = "done"
        /\ reqs[s].op = "update"
        /\ reqs[s].ids = <<"INV9", "INV3", "INV4", "INV5">>
        /\ reqs[s].success_count = 1
        /\ reqs[s].error_count = 3
        /\ [k \in 1..4 |-> reqs[s].results[k].result]
              = <<"not_found", "not_authorized", "already_processed", "updated">>
        /\ db[5].status = "rejected"

Ceiling(n, d) == IF n % d = 0 THEN n \div d ELSE (n \div d) + 1

RECURSIVE Pages(_, _, _)
\* the invoices of the pages p, p + 1, ... of the pending list, one after
\* the other
Pages(p, total_pages, page_size) ==
    IF p > total_pages THEN <<>>
    ELSE LET res == QueryResult(PendingInvoices, p, page_size) IN
         (IF res.kind = "page" THEN res.invoices ELSE <<"?">>)
         \o Pages(p + 1, total_pages, page_size)

\* C32: query_pending_invoices answers with the pending invoices of the
\* manager at the positions of the page, for page < 1 taken as 1 and
\* page_size < 1 as 10, > 100 as 100; total_pages is the ceiling of
\* total / page_size, the pages 1..total_pages together are the pending
\* list, a page beyond gives the out-of-range answer and an empty list the
\* no-pending answer.
C32_Pagination ==
    \A s \in Slots :
        (reqs[s].pc = "done" /\ reqs[s].op = "query")
        => LET res == Val(reqs[s].response)
               p == IF reqs[s].page < 1 THEN 1 ELSE reqs[s].page
               size == IF reqs[s].page_size < 1 THEN 10
                       ELSE IF reqs[s].page_size > 100 THEN 100
                       ELSE reqs[s].page_size
               pending == { k \in 1..Len(db) :
                              db[k].manager_id = ManagerId /\ db[k].status = "pending" }
               n == Cardinality(pending)
               pages == Ceiling(n, size)
               \* the store position of the pending invoice number j
               at(j) == CHOOSE k \in pending :
                           Cardinality({m \in pending : m < k}) = j - 1 IN
           IF n = 0 THEN res.kind = "no_pending"
           ELSE IF p > pages
           THEN res.kind = "out_of_range" /\ res.total_pages = pages
           ELSE /\ res.kind = "page"
                /\ res.total_pending = n
                /\ res.page = p
                /\ res.page_size = size
                /\ res.total_pages = pages
                /\ res.showing = Len(res.invoices)
                /\ Len(res.invoices) = (IF p * size < n THEN p * size ELSE n)
                                          - (p - 1) * size
                /\ \A j \in 1..Len(res.invoices) :
                      res.invoices[j] = db[at((p - 1) * size + j)].invoice_id
                /\ Pages(1, pages, size) = [j \in 1..n |-> db[at(j)].invoice_id]

\* the second of two pages of size 2 was asked for and holds the third
\* pending invoice
C32_Witness ==
    \E s \in Slots :
        /\ reqs[s].pc = "done"
        /\ reqs[s].op = "query"
        /\ reqs[s].page = 2
        /\ reqs[s].page_size = 2
        /\ Val(reqs[s].response).kind = "page"
        /\ Val(reqs[s].response).total_pages = 2
        /\ Val(reqs[s].response).invoices = <<"INV5">>

\* the calls that reported the invoice id as updated
Successes(id) ==
    { s \in Slots :
        \E j \in 1..Len(reqs[s].results) :
            reqs[s].results[j] = [invoice_id |-> id, result |-> "updated"] }

C33_Step ==
    /\ \A k \in 1..Len(db) : db[k].status # "pending" => db'[k] = db[k]
    /\ \A id \in {"INV1", "INV2", "INV5"} :
          (\A k \in 1..Len(db) : db[k].invoice_id = id => db[k].status # "pending")
          => /\ Cardinality(Successes(id)) <= 1
             /\ \A s \in Successes(id), k \in 1..Len(db) :
                   db[k].invoice_id = id
                   => db[k].status = Lower(reqs[s].new_status)

\* C33: of two overlapping update_invoice_status calls for the same pending
\* invoice one succeeds and the other is refused; the status the successful
\* call stored is not overwritten.
C33_OverlappingUpdatesExclude == [][C33_Step]_vars

(***************************************************************************)
(* SimpleInvoiceWorkflow (simple_invoice_workflow.py)                      *)
(*                                                                         *)
(* heap holds the one workflow object, reqs the coroutine of               *)
(* process_invoice_request, store the calls made on the object so far with *)
(* what each returned, agentCalls the agent.invoke_async calls issued and  *)
(* budget the calls still to come.  db is not used.                        *)
(***************************************************************************)
MaxWorkflowCalls == 5
\* length of the message sequences tried from a verification with violations
MaxResubmissions == 3

\* WorkflowStage
ANALYSIS == "analysis"
VERIFICATION == "verification"
CONFIRMATION == "confirmation"
NOTIFICATION == "notification"
COMPLETED == "completed"

\* invoice_date "Not found", as the analysis prompt asks for unknown fields
NotFoundDate == -3

\* the user_message arguments tried
SimpleMessages == {"confirm ", "CANCEL", "OVERRIDE", "corrected invoice"}

\* line 187: user_message.upper().strip()
UpperStrip(text) ==
    CASE text = "confirm " -> "CONFIRM"
      [] text = "corrected invoice" -> "CORRECTED INVOICE"
      [] OTHER -> text

\* a dict as json.loads returns it: its keys and the list under "invoices"
Dict(keys, invoices) == [keys |-> keys, invoices |-> invoices]

\* lines 264-283: the dict found in the response, or the fallback
FallbackData == Dict({"invoices", "extraction_failed"}, <<>>)
_extract_json_from_response(response) ==
    IF IsNone(response.json) THEN FallbackData ELSE Val(response.json)

\* the texts agent.invoke_async returns: json is the JSON object of the text
\* when the text holds one that parses
OldMealInvoice == Inv("123456789", "Microsoft Corp", "Restaurant Roma", Today - 45, 250, "meal")
AgentResponses ==
    { [json |-> None],
      [json |-> Some(Dict({}, <<>>))],
      [json |-> Some(Dict({"invoices"}, <<GoodInvoice>>))],
      [json |-> Some(Dict({"invoices"}, <<OldMealInvoice>>))],
      [json |-> Some(Dict({"invoices"}, <<NoDateInvoice, NullAmountInvoice>>))] }

\* __init__ (lines 31-35) and reset_workflow (lines 289-294)
FreshWorkflow(is_open) ==
    [current_stage |-> ANALYSIS, extracted_data |-> None,
     policy_violations |-> <<>>, reimbursement_form |-> None,
     is_open |-> is_open]

\* lines 144-151
SimpleMealViolations(i, rec) ==
    IF (ContainsRestaurant(rec.vendor_name) \/ ContainsMeal(rec.items))
       /\ rec.total_amount > 200
    THEN <<Violation(i, "meal_limit", rec.total_amount)>>
    ELSE <<>>

\* lines 154-162
SimpleDateViolations(i, rec) ==
    IF rec.invoice_date \in {NoDate, NullDate, NotFoundDate} THEN <<>>
    ELSE IF rec.invoice_date = BadDate
         THEN <<Violation(i, "date_format", rec.invoice_date)>>
    ELSE IF Today - rec.invoice_date > 30
         THEN <<Violation(i, "date_limit", Today - rec.invoice_date)>>
    ELSE <<>>

\* lines 165-168: not invoice.get(field) or invoice.get(field) == "Not found"
SimpleFieldMissing(rec, field) ==
    IF field = "total_amount" THEN rec.total_amount \in {0, NullAmount}
    ELSE rec[field] \in {"", "Not found"}

SimpleFieldViolations(i, rec) ==
    LET Field(f) == IF SimpleFieldMissing(rec, f)
                    THEN <<Violation(i, "missing_field", f)>> ELSE <<>>
    IN Field("tax_id") \o Field("company_name") \o Field("vendor_name")
       \o Field("total_amount")

\* lines 143-168, for the invoices from position i on
RECURSIVE SimpleViolations(_, _)
SimpleViolations(invoices, i) ==
    IF i > Len(invoices) THEN <<>>
    ELSE SimpleMealViolations(i, invoices[i])
         \o SimpleDateViolations(i, invoices[i])
         \o SimpleFieldViolations(i, invoices[i])
         \o SimpleViolations(invoices, i + 1)

RECURSIVE SumAmounts(_)
SumAmounts(invoices) ==
    IF invoices = <<>> THEN 0
    ELSE Head(invoices).total_amount + SumAmounts(Tail(invoices))

Returns(wf, response) == [wf |-> wf, response |-> response]

\* lines 133-182; not self.extracted_data at line 136, float(...) raising
\* at line 145; an exception leaves the object as it is and is answered by
\* the except of process_invoice_request (lines 71-73)
_handle_verification_stage(wf, user_message) ==
    IF IsNone(wf.extracted_data) \/ Val(wf.extracted_data).keys = {}
    THEN Returns(wf, "no_invoice_data")
    ELSE LET invoices == Val(wf.extracted_data).invoices
             violations == SimpleViolations(invoices, 1)
         IN IF \E i \in DOMAIN invoices : FloatRaises(invoices[i])
            THEN Returns(wf, "error")
            ELSE IF violations # <<>>
            THEN Returns([wf EXCEPT !.policy_violations = violations],
                         "violations_found")
            ELSE Returns([wf EXCEPT !.policy_violations = violations,
                                    !.current_stage = CONFIRMATION],
                         "confirmation_form")

\* lines 202-234
_handle_notification_stage(wf) ==
    LET invoices == Val(wf.extracted_data).invoices
    IN Returns([wf EXCEPT
                  !.reimbursement_form =
                      Some([invoices |-> invoices,
                            total_amount |-> SumAmounts(invoices),
                            status |-> "pending_approval"]),
                  !.current_stage = COMPLETED],
               "submitted")

\* lines 184-200
_handle_confirmation_stage(wf, user_message) ==
    LET user_response == UpperStrip(user_message)
    IN IF user_response = "CONFIRM"
       THEN _handle_notification_stage(
                [wf EXCEPT !.current_stage = NOTIFICATION])
       ELSE IF user_response = "CANCEL"
       THEN Returns(wf, "request_cancelled")
       ELSE Returns(wf, "please_confirm")

\* lines 56-69: the stages other than ANALYSIS; images is not passed on
Dispatch(wf, user_message, images) ==
    CASE wf.current_stage = VERIFICATION ->
             _handle_verification_stage(wf, user_message)
      [] wf.current_stage = CONFIRMATION ->
             _handle_confirmation_stage(wf, user_message)
      [] wf.current_stage = NOTIFICATION ->
             _handle_notification_stage(wf)
      [] OTHER -> Returns(wf, "workflow_completed")

\* lines 46-69 with agent.open() succeeding: in ANALYSIS the coroutine is
\* suspended in agent.invoke_async, in the other stages it returns
process_invoice_request(user_message, images) ==
    /\ budget > 0
    /\ reqs[1].pc # "invoke"
    /\ budget' = budget - 1
    /\ LET wf == [heap[1] EXCEPT !.is_open = TRUE]
       IN IF wf.current_stage = ANALYSIS
          THEN /\ heap' = <<wf>>
               /\ reqs' = <<[pc |-> "invoke", user_message |-> user_message,
                             images |-> images, response |-> ""]>>
               /\ agentCalls' = agentCalls + 1
               /\ store' = store
          ELSE LET r == Dispatch(wf, user_message, images)
               IN /\ heap' = <<r.wf>>
                  /\ reqs' = <<[pc |-> "done", user_message |-> user_message,
                                images |-> images, response |-> r.response]>>
                  /\ store' = Append(store, [op |-> "process", stage |-> wf.current_stage, response |-> r.response])
                  /\ agentCalls' = agentCalls
    /\ db' = db

\* line 50 raises in the first call (simple_chat_agent.py lines 161-163),
\* answered at lines 71-73
OpenRaises(user_message, images) ==
    /\ budget > 0
    /\ reqs[1].pc # "invoke"
    /\ ~heap[1].is_open
    /\ budget' = budget - 1
    /\ reqs' = <<[pc |-> "done", user_message |-> user_message,
                  images |-> images, response |-> "error"]>>
    /\ store' = Append(store, [op |-> "process", stage |-> heap[1].current_stage, response |-> "error"])
    /\ UNCHANGED <<heap, db, agentCalls>>

\* lines 123-131
InvokeReturns(response) ==
    /\ reqs[1].pc = "invoke"
    /\ heap' = <<[heap[1] EXCEPT
                    !.extracted_data = Some(_extract_json_from_response(response)),
                    !.current_stage = VERIFICATION]>>
    /\ reqs' = <<[reqs[1] EXCEPT !.pc = "done", !.response = "analysis"]>>
    /\ store' = Append(store, [op |-> "process", stage |-> ANALYSIS, response |-> "analysis"])
    /\ UNCHANGED <<db, agentCalls, budget>>

\* line 123 raises (simple_chat_agent.py lines 266-268), answered at 71-73
InvokeRaises ==
    /\ reqs[1].pc = "invoke"
    /\ reqs' = <<[reqs[1] EXCEPT !.pc = "done", !.response = "error"]>>
    /\ store' = Append(store, [op |-> "process", stage |-> ANALYSIS, response |-> "error"])
    /\ UNCHANGED <<heap, db, agentCalls, budget>>

\* lines 289-294
reset_workflow ==
    /\ budget > 0
    /\ reqs[1].pc # "invoke"
    /\ budget' = budget - 1
    /\ heap' = <<FreshWorkflow(heap[1].is_open)>>
    /\ store' = Append(store, [op |-> "reset", stage |-> heap[1].current_stage, response |-> ""])
    /\ UNCHANGED <<reqs, db, agentCalls>>

InitSimple ==
    /\ heap = <<FreshWorkflow(FALSE)>>
    /\ reqs = <<[pc |-> "idle", user_message |-> "", images |-> 0,
               response |-> ""]>>
    /\ store = <<>>
    /\ db = <<>>
    /\ agentCalls = 0
    /\ budget = MaxWorkflowCalls

NextSimple ==
    \/ \E m \in SimpleMessages, f \in Attachments :
           process_invoice_request(m, f)
    \/ \E m \in SimpleMessages, f \in Attachments : OpenRaises(m, f)
    \/ \E r \in AgentResponses : InvokeReturns(r)
    \/ InvokeRaises
    \/ reset_workflow

SpecSimple == InitSimple /\ [][NextSimple]_vars

\* a reset_workflow call followed by a completed analysis, after call i
RestartedAfter(i) ==
    \E j \in DOMAIN store, k \in DOMAIN store :
        /\ i < j /\ j < k
        /\ store[j].op = "reset"
        /\ store[k].response = "analysis"

\* C34: once a CANCEL was answered at the CONFIRMATION stage, and as long as
\* reset_workflow followed by a new analysis has not happened since, the
\* workflow holds no reimbursement form and is in neither NOTIFICATION nor
\* COMPLETED, whatever messages came after the CANCEL.
C34_CancelIsFinal ==
    \A i \in DOMAIN store :
        (store[i].response = "request_cancelled" /\ ~RestartedAfter(i))
        => /\ IsNone(heap[1].reimbursement_form)
           /\ heap[1].current_stage \notin {NOTIFICATION, COMPLETED}

\* some sequence of at most n further messages, with or without
\* attachments, takes the workflow wf to CONFIRMATION
RECURSIVE Progress(_, _)
Progress(wf, n) ==
    \/ wf.current_stage = CONFIRMATION
    \/ /\ n > 0
       /\ \E m \in SimpleMessages, f \in Attachments :
              Progress(Dispatch(wf, m, f).wf, n - 1)

\* C35: whenever the workflow is in VERIFICATION with violations recorded,
\* there is a sequence of further messages (OVERRIDE, or a resubmission with
\* attachments) that takes it to CONFIRMATION without reset_workflow.
C35_ViolationsCanBeResolved ==
    (heap[1].current_stage = VERIFICATION
     /\ heap[1].policy_violations # <<>>)
    => Progress(heap[1], MaxResubmissions)

====
